---- MODULE Spec2Model ----
(***************************************************************************)
(* A model of the pglz compressor / decompressor variants of               *)
(* bench/variants: pg_lzcompress_strategy_skip.c ("skip"),                 *)
(* pg_lzcompress_simd.c ("simd_sse2" with USE_SSE2, "simd_scalar" without) *)
(* and pg_lzcompress_step6_skipafter.c ("step6").                          *)
(*                                                                         *)
(* Pointers are modelled as byte offsets from the start of their buffer:   *)
(* source = 0, dend = slen, bstart = 0.  A sequence s holds the byte at    *)
(* offset i in s[i + 1].                                                   *)
(***************************************************************************)
EXTENDS Integers, Sequences, FiniteSets, TLC

(***************************************************************************)
(* Program constants.                                                      *)
(***************************************************************************)
PGLZ_MAX_HISTORY_LISTS == 8192
PGLZ_HISTORY_SIZE == 4096
PGLZ_MAX_MATCH == 273
PGLZ_MAX_CHAIN == 256
PGLZ_INVALID_ENTRY == -1
INT_MAX == 2147483647

\* 2654435761u = 0x9E3779B1, least significant byte first.
FIB_K0 == 177
FIB_K1 == 121
FIB_K2 == 55
FIB_K3 == 158

\* The value of a pointer that was never assigned (static zero initialiser).
NULL == -1000000
\* A byte of dest that the current call has not written.
UNWRITTEN == -1

(***************************************************************************)
(* Bounds of the model.                                                    *)
(***************************************************************************)
MaxLen == 7
MaxRun == 23
MaxDecLen == 5
MaxRaw == 5
MaxCalls == 3

(***************************************************************************)
(* C operators on non-negative integers.                                   *)
(***************************************************************************)
RECURSIVE BitAnd(_, _)
BitAnd(a, b) ==
    IF a = 0 \/ b = 0 THEN 0
    ELSE (a % 2) * (b % 2) + 2 * BitAnd(a \div 2, b \div 2)

RECURSIVE BitOr(_, _)
BitOr(a, b) ==
    IF a = 0 THEN b
    ELSE IF b = 0 THEN a
    ELSE (IF a % 2 = 1 \/ b % 2 = 1 THEN 1 ELSE 0) + 2 * BitOr(a \div 2, b \div 2)

\* (unsigned char) x
U8(x) == x % 256

Min(x, y) == IF x < y THEN x ELSE y

\* s[i] for a buffer held in a sequence; a read outside the buffer yields
\* whatever byte `oob` the caller supplies.
At(s, i, oob) == IF i >= 0 /\ i < Len(s) THEN s[i + 1] ELSE oob

(***************************************************************************)
(* Strategies.                                                             *)
(***************************************************************************)
Strategy(mi, ma, rate, fsb, good, drop, skip) ==
    [min_input_size |-> mi, max_input_size |-> ma, min_comp_rate |-> rate,
     first_success_by |-> fsb, match_size_good |-> good,
     match_size_drop |-> drop, skip_after_match |-> skip]

PGLZ_strategy_default == Strategy(32, INT_MAX, 25, 1024, 128, 10, FALSE)
PGLZ_strategy_always == Strategy(0, INT_MAX, 0, INT_MAX, 128, 6, FALSE)
PGLZ_strategy_skip == Strategy(32, INT_MAX, 25, 1024, 128, 10, TRUE)


(***************************************************************************)
(* State.                                                                  *)
(***************************************************************************)
VARIABLES
    build,          \* which variant's pglz_compress this process links
    source,         \* the input bytes of the current pglz_compress call
    strategy,       \* the strategy record of the current call
    hist_start,     \* static int16 hist_start[]: see NoHeads
    hist_entries,   \* static PGLZ_HistEntry hist_entries[]: slots written so far
    hist_next,      \* local int hist_next
    hist_recycle,   \* local bool hist_recycle
    dp,             \* input cursor
    dest,           \* output bytes dest[0 .. bp-1]; bp = Len(dest)
    ctrlp,          \* offset in dest of the reserved control byte, -1 = &ctrl_dummy
    ctrlb,          \* control byte under construction
    ctrl,           \* mask of the next control bit (unsigned char)
    found_match,    \* local bool found_match
    match_len,      \* remaining iterations of while (match_len--)
    pc,             \* position of the process
    ret,            \* return value of the finished pglz_compress call
    items,          \* history variable: the items emitted by the current call
    calls,          \* history variable: number of pglz_compress calls made
    prev,           \* history variable: outcome of an earlier call
    fresh,          \* history variable: static cells written by the current call
    leak,           \* history variable: a stale static cell was read
    obs,            \* history variable: reads and unlinks of the current call
    dsrc,           \* pglz_decompress: the compressed source bytes
    rawsize,        \* pglz_decompress: rawsize
    check_complete, \* pglz_decompress: check_complete
    sp,             \* pglz_decompress: source cursor
    ddest,          \* pglz_decompress: bytes written, dest[0 .. dp-1]
    dctrl,          \* pglz_decompress: ctrl
    ctrlc,          \* pglz_decompress: ctrlc
    len,            \* pglz_decompress: len of the tag being expanded
    off,            \* pglz_decompress: off of the tag being expanded
    dret,           \* return value of the finished pglz_decompress call
    tag             \* history variable: the last tag decoded by pglz_decompress

cvars == <<build, source, strategy, hist_start, hist_entries, hist_next,
           hist_recycle, dp, dest, ctrlp, ctrlb, ctrl, found_match, match_len,
           ret, items, calls, prev, fresh, leak, obs>>
dvars == <<dsrc, rawsize, check_complete, sp, ddest, dctrl, ctrlc, len, off,
           dret, tag>>
vars == <<cvars, dvars, pc>>

slen == Len(source)
dend == Len(source)
bp == Len(dest)

(***************************************************************************)
(* pglz_hist_idx: Fibonacci multiply-shift hash of four bytes, on uint32.  *)
(***************************************************************************)
\* (b0 | b1 << 8 | b2 << 16 | b3 << 24) * 2654435761u, bits 31..16.
\* The product is taken byte-wise so that no intermediate exceeds 2^31.
MulHi16(b0, b1, b2, b3) ==
    LET c0 == b0 * FIB_K0
        c1 == b0 * FIB_K1 + b1 * FIB_K0
        c2 == b0 * FIB_K2 + b1 * FIB_K1 + b2 * FIB_K0
        c3 == b0 * FIB_K3 + b1 * FIB_K2 + b2 * FIB_K1 + b3 * FIB_K0
    IN  (((c0 + c1 * 256) \div 65536) + c2 + (c3 % 256) * 256) % 65536

pglz_hist_idx(src, s, end, mask) ==
    IF end - s < 4
    THEN BitAnd(At(src, s, 0), mask)
    ELSE BitAnd(MulHi16(At(src, s, 0), At(src, s + 1, 0),
                        At(src, s + 2, 0), At(src, s + 3, 0)) \div 8, mask)

\* Whether a read of pglz_hist_idx(s, end, mask) falls outside the n bytes
\* of the source buffer: it reads s[0] .. s[3], or s[0] alone if end - s < 4.
BadIdx(n, s, end) == s < 0 \/ (IF end - s < 4 THEN s + 1 ELSE s + 4) > n

(***************************************************************************)
(* The static work arrays.  Both are zero-initialised by the C runtime;    *)
(* the model stores only the cells that were written since process start.  *)
(***************************************************************************)
ZeroEntry == [pos |-> NULL, next |-> 0, hindex |-> 0]

\* hist_start is held as the record [lo, at]: at maps the heads that hold an
\* entry index to it; a head below lo that is not in at holds
\* PGLZ_INVALID_ENTRY from a reset; every other head was never written and
\* holds its static initialiser 0.
NoHeads == [lo |-> 0, at |-> << >>]

\* hstart[b]
HStart(hs, b) ==
    IF b \in DOMAIN hs.at THEN hs.at[b]
    ELSE IF b < hs.lo THEN PGLZ_INVALID_ENTRY
    ELSE 0

\* f with f[k] = v
Put(f, k, v) ==
    IF k \in DOMAIN f THEN [f EXCEPT ![k] = v]
    ELSE (k :> v) @@ f

\* hstart[b] = v
PutHead(hs, b, v) ==
    IF v = PGLZ_INVALID_ENTRY /\ b < hs.lo
    THEN [hs EXCEPT !.at = [x \in (DOMAIN @) \ {b} |-> @[x]]]
    ELSE [hs EXCEPT !.at = Put(@, b, v)]

\* hstart[i] = PGLZ_INVALID_ENTRY for every i < n
ClearHeads(hs, n) ==
    [lo |-> IF n > hs.lo THEN n ELSE hs.lo,
     at |-> [x \in {y \in DOMAIN hs.at : y >= n} |-> hs.at[x]]]

HEntry(he, i) == IF i \in DOMAIN he THEN he[i] ELSE ZeroEntry

\* What the model records about the reads and the unlinks of one call:
\*   finds    the number of pglz_find_match calls
\*   chain    the largest number of entries one pglz_find_match call examined
\*   room     the smallest end - input of a pglz_find_match call
\*   unsafe   an Assert of pglz_find_match would have failed, or a read fell
\*            outside [source, source + slen)
\*   adds     the number of pglz_hist_add calls
\*   unlinks  the number of pglz_hist_unlink calls
\*   notfound a pglz_hist_unlink left without splicing
\*   notlast  a pglz_hist_unlink spliced an entry that had a successor
NoObs == [finds |-> 0, chain |-> 0, room |-> INT_MAX, unsafe |-> FALSE,
          adds |-> 0, unlinks |-> 0, notfound |-> FALSE, notlast |-> FALSE]

\* The history of one call: the two static arrays, the two locals, and the
\* history variables fresh (heads reset and slots written by this call),
\* leak (a cell not written by this call was read) and obs.
Hist == [hs |-> hist_start, he |-> hist_entries, next |-> hist_next,
         recycle |-> hist_recycle, fresh |-> fresh, leak |-> leak, obs |-> obs]

\* for (i = 0; i < hashsz; i++) hist_start[i] = PGLZ_INVALID_ENTRY;
ResetHeads_Once(h, n) ==
    IF h.hs = NoHeads THEN [h EXCEPT !.hs = ClearHeads(@, n), !.fresh.heads = n]
    ELSE h

ResetHeads_Short(h, n) ==
    [h EXCEPT !.hs = ClearHeads(@, n - 1), !.fresh.heads = n - 1]

ResetHeads(h, n) ==
    [h EXCEPT !.hs = ClearHeads(@, n), !.fresh.heads = n]

StaleHead(h, b) == ~(b >= 0 /\ b < h.fresh.heads)
StaleSlot(h, i) == ~(i >= 0 /\ i < h.fresh.slots)

(***************************************************************************)
(* pglz_hist_unlink: pp starts at &hstart[entry->hindex] and follows       *)
(* &hentries[*pp].next.  pp.inhead says which of the two arrays pp points  *)
(* into, pp.idx is the index there, pp.cur is *pp, pp.leak whether a cell  *)
(* read on the way was not written by this call.                           *)
(***************************************************************************)
\* pp = &hentries[cur].next, where cur = *pp; the new pp.cur is *pp again
NextPp(h, pp) ==
    [inhead |-> FALSE, idx |-> pp.cur, cur |-> HEntry(h.he, pp.cur).next,
     leak |-> pp.leak \/ StaleSlot(h, pp.cur)]

\* The iterations of a walk along a chain are evaluated in blocks of
\* WalkBlock, at most WalkBlocks of them: more than the ring has entries.
WalkBlock == 64
WalkBlocks == 66

\* pp after at most n more iterations of while (*pp != PGLZ_INVALID_ENTRY)
RECURSIVE UnlinkWalk(_, _, _, _)
UnlinkWalk(h, entry_idx, pp, n) ==
    IF n = 0 \/ pp.cur = PGLZ_INVALID_ENTRY \/ pp.cur = entry_idx
    THEN pp
    ELSE UnlinkWalk(h, entry_idx, NextPp(h, pp), n - 1)

RECURSIVE UnlinkSeek(_, _, _, _)
UnlinkSeek(h, entry_idx, pp, blocks) ==
    IF blocks = 0 \/ pp.cur = PGLZ_INVALID_ENTRY \/ pp.cur = entry_idx
    THEN pp
    ELSE UnlinkSeek(h, entry_idx, UnlinkWalk(h, entry_idx, pp, WalkBlock),
                    blocks - 1)

\* if (*pp == entry_idx) { *pp = entry->next; return; } and the path that
\* leaves the loop without a splice
Splice(h, entry_idx, pp, nxt) ==
    IF pp.cur = entry_idx
    THEN [h EXCEPT !.hs = IF pp.inhead THEN PutHead(h.hs, pp.idx, nxt) ELSE @,
                   !.he = IF pp.inhead THEN @
                          ELSE Put(h.he, pp.idx,
                                   [HEntry(h.he, pp.idx) EXCEPT !.next = nxt]),
                   !.leak = @ \/ pp.leak,
                   !.obs.unlinks = @ + 1,
                   !.obs.notlast = @ \/ nxt # PGLZ_INVALID_ENTRY]
    ELSE [h EXCEPT !.leak = @ \/ pp.leak,
                   !.obs.unlinks = @ + 1,
                   !.obs.notfound = TRUE]

\* pp = &hstart[entry->hindex]
FirstPp_Bucket0(h, hindex, lk) ==
    [inhead |-> TRUE, idx |-> 0, cur |-> HStart(h.hs, 0),
     leak |-> lk \/ StaleHead(h, 0)]

FirstPp(h, hindex, lk) ==
    [inhead |-> TRUE, idx |-> hindex, cur |-> HStart(h.hs, hindex),
     leak |-> lk \/ StaleHead(h, hindex)]

pglz_hist_unlink(h, entry_idx) ==
    Splice(h, entry_idx,
           UnlinkSeek(h, entry_idx,
                      FirstPp(h, HEntry(h.he, entry_idx).hindex,
                              StaleSlot(h, entry_idx)),
                      WalkBlocks),
           HEntry(h.he, entry_idx).next)

(***************************************************************************)
(* pglz_hist_add                                                           *)
(***************************************************************************)
\* *myhe as pglz_hist_add fills it
NewEntry_NoIndex(s, nxt, hindex) == [pos |-> s, next |-> nxt, hindex |-> 0]

NewEntry(s, nxt, hindex) == [pos |-> s, next |-> nxt, hindex |-> hindex]

\* The part of pglz_hist_add after the unlink: u is the history it left.
Link(u, s, hindex, entry_idx, wrap, bad) ==
    [hs      |-> PutHead(u.hs, hindex, entry_idx),
     he      |-> Put(u.he, entry_idx, NewEntry(s, HStart(u.hs, hindex), hindex)),
     next    |-> IF wrap THEN 0 ELSE entry_idx + 1,
     recycle |-> u.recycle \/ wrap,
     fresh   |-> [u.fresh EXCEPT !.slots = IF entry_idx = @ THEN @ + 1 ELSE @],
     leak    |-> u.leak \/ StaleHead(u, hindex),
     obs     |-> [u.obs EXCEPT !.adds = @ + 1, !.unsafe = @ \/ bad]]

\* if (++(*hist_next) >= PGLZ_HISTORY_SIZE + 1), on the value before ++
RingEnd_Early(n) == n + 1 >= PGLZ_HISTORY_SIZE

RingEnd(n) == n + 1 >= PGLZ_HISTORY_SIZE + 1

pglz_hist_add(h, src, s, end, mask) ==
    Link(IF h.recycle THEN pglz_hist_unlink(h, h.next) ELSE h,
         s, pglz_hist_idx(src, s, end, mask), h.next,
         RingEnd(h.next), BadIdx(Len(src), s, end))

(***************************************************************************)
(* The bitstream writer: dest, ctrlp, ctrlb, ctrl.                         *)
(***************************************************************************)
Writer == [dest |-> dest, ctrlp |-> ctrlp, ctrlb |-> ctrlb, ctrl |-> ctrl]

\* *p = v for a pointer into dest, or into ctrl_dummy when p = -1
Store(d, p, v) == IF p >= 0 /\ p < Len(d) THEN [d EXCEPT ![p + 1] = v] ELSE d

pglz_out_ctrl(w) ==
    IF BitAnd(w.ctrl, 255) = 0
    THEN [dest  |-> Append(Store(w.dest, w.ctrlp, w.ctrlb), UNWRITTEN),
          ctrlp |-> Len(w.dest),
          ctrlb |-> 0,
          ctrl  |-> 1]
    ELSE w

pglz_out_literal(w, byte) ==
    LET c == pglz_out_ctrl(w)
    IN  [c EXCEPT !.dest = Append(c.dest, byte), !.ctrl = U8(c.ctrl * 2)]

\* The bytes pglz_out_tag stores at *buf.
TagBytes_Late(len_, off_) ==
    IF len_ > 18
    THEN << U8(BitOr(BitAnd(off_, 3840) \div 16, 15)), U8(BitAnd(off_, 255)),
            U8(len_ - 18) >>
    ELSE << U8(BitOr(BitAnd(off_, 3840) \div 16, len_ - 3)), U8(BitAnd(off_, 255)) >>

TagBytes(len_, off_) ==
    IF len_ > 17
    THEN << U8(BitOr(BitAnd(off_, 3840) \div 16, 15)), U8(BitAnd(off_, 255)),
            U8(len_ - 18) >>
    ELSE << U8(BitOr(BitAnd(off_, 3840) \div 16, len_ - 3)), U8(BitAnd(off_, 255)) >>

pglz_out_tag(w, len_, off_) ==
    LET c == pglz_out_ctrl(w)
    IN  [c EXCEPT !.dest  = c.dest \o TagBytes(len_, off_),
                  !.ctrlb = BitOr(c.ctrlb, c.ctrl),
                  !.ctrl  = U8(c.ctrl * 2)]

(***************************************************************************)
(* pglz_find_match                                                         *)
(***************************************************************************)
\* memcmp(a, b, n) == 0 on the source buffer
MemEq(src, a, b, n) == \A k \in 0 .. n - 1 : At(src, a + k, 0) = At(src, b + k, 0)

\* while (ip < end && *ip == *hp && thislen < PGLZ_MAX_MATCH) ...
\* Sixteen iterations are taken at once where all sixteen tests succeed.
RECURSIVE ExtendLoop_Capped(_, _, _, _, _)
ExtendLoop_Capped(src, ip, hp, end, thislen) ==
    IF ip + 15 < end /\ thislen + 16 < PGLZ_MAX_MATCH /\ MemEq(src, ip, hp, 16)
    THEN ExtendLoop_Capped(src, ip + 16, hp + 16, end, thislen + 16)
    ELSE IF ip < end /\ At(src, ip, 0) = At(src, hp, 0) /\ thislen + 1 < PGLZ_MAX_MATCH
    THEN ExtendLoop_Capped(src, ip + 1, hp + 1, end, thislen + 1)
    ELSE thislen

RECURSIVE ExtendLoop(_, _, _, _, _)
ExtendLoop(src, ip, hp, end, thislen) ==
    IF ip + 15 < end /\ thislen + 15 < PGLZ_MAX_MATCH /\ MemEq(src, ip, hp, 16)
    THEN ExtendLoop(src, ip + 16, hp + 16, end, thislen + 16)
    ELSE IF ip < end /\ At(src, ip, 0) = At(src, hp, 0) /\ thislen < PGLZ_MAX_MATCH
    THEN ExtendLoop(src, ip + 1, hp + 1, end, thislen + 1)
    ELSE thislen

\* The candidate test of the strategy-skip and step6 variants: the match
\* length found at candidate hp, or 0 where the code jumps to next_entry.
CandLenStep5_Unverified(src, input, hp, end, len_) ==
    IF MemEq(src, input, hp, 4)
    THEN IF len_ >= 16 /\ 4 < len_
         THEN ExtendLoop(src, input + len_, hp + len_, end, len_)
         ELSE ExtendLoop(src, input + 4, hp + 4, end, 4)
    ELSE 0

CandLenStep5(src, input, hp, end, len_) ==
    IF MemEq(src, input, hp, 4)
    THEN IF len_ >= 16 /\ 4 < len_
         THEN IF MemEq(src, input + 4, hp + 4, len_ - 4)
              THEN ExtendLoop(src, input + len_, hp + len_, end, len_)
              ELSE 0
         ELSE ExtendLoop(src, input + 4, hp + 4, end, 4)
    ELSE 0

\* Scalar tail of match_len_simd, and the scalar fallback of the SIMD
\* variant: while (len < max_len && a[len] == b[len]) len++;
\* Sixteen iterations are taken at once where all sixteen tests succeed.
RECURSIVE ScalarLen(_, _, _, _, _)
ScalarLen(src, a, b, max_len, n) ==
    IF n + 15 < max_len /\ MemEq(src, a + n, b + n, 16)
    THEN ScalarLen(src, a, b, max_len, n + 16)
    ELSE IF n < max_len /\ At(src, a + n, 0) = At(src, b + n, 0)
    THEN ScalarLen(src, a, b, max_len, n + 1)
    ELSE n

\* __builtin_ctz(~mask): the first of the 16 lanes that differs
FirstDiff16(src, a, b) ==
    CHOOSE k \in 0 .. 15 :
        /\ At(src, a + k, 0) # At(src, b + k, 0)
        /\ \A j \in 0 .. k - 1 : At(src, a + j, 0) = At(src, b + j, 0)

match_len_simd_NoTail(src, a, b, max_len, n) ==
    LET RECURSIVE Vec(_)
        Vec(k) == IF k + 16 <= max_len
                  THEN IF MemEq(src, a + k, b + k, 16)
                       THEN Vec(k + 16)
                       ELSE k + FirstDiff16(src, a + k, b + k)
                  ELSE k
    IN  Vec(n)

RECURSIVE match_len_simd(_, _, _, _, _)
match_len_simd(src, a, b, max_len, n) ==
    IF n + 16 <= max_len
    THEN IF MemEq(src, a + n, b + n, 16)
         THEN match_len_simd(src, a, b, max_len, n + 16)
         ELSE n + FirstDiff16(src, a + n, b + n)
    ELSE ScalarLen(src, a, b, max_len, n)

\* ext_max: the smaller of max_ext and remain, and 0 if that is negative
ExtMax(max_ext, remain) ==
    IF (IF max_ext < remain THEN max_ext ELSE remain) < 0 THEN 0
    ELSE IF max_ext < remain THEN max_ext ELSE remain

\* if (thislen <= len) goto next_entry;
Longer(thislen, len_) == IF thislen <= len_ THEN 0 ELSE thislen

\* The candidate test of the SIMD variant, with and without USE_SSE2.
CandLenSimd(sse2, src, input, hp, end, len_) ==
    IF MemEq(src, input, hp, 4)
    THEN Longer(4 + (IF sse2
                     THEN match_len_simd(src, input + 4, hp + 4,
                                         ExtMax(end - (input + 4), PGLZ_MAX_MATCH - 4), 0)
                     ELSE ScalarLen(src, input + 4, hp + 4,
                                    ExtMax(end - (input + 4), PGLZ_MAX_MATCH - 4), 0)),
                len_)
    ELSE 0

CandLen(b, src, input, hp, end, len_) ==
    CASE b = "simd_sse2"   -> CandLenSimd(TRUE, src, input, hp, end, len_)
      [] b = "simd_scalar" -> CandLenSimd(FALSE, src, input, hp, end, len_)
      [] OTHER             -> CandLenStep5(src, input, hp, end, len_)

\* One past the highest offset the extension loop reads: it starts at ip0
\* with thislen = t0 and leaves with thislen = t.
ExtHigh(ip0, end, t0, t) ==
    ip0 + (t - t0) + (IF ip0 + (t - t0) < end /\ t < PGLZ_MAX_MATCH THEN 1 ELSE 0)

\* One past the highest offset the candidate test reads on the ip side.
HighStep5(src, input, hp, end, len_) ==
    IF MemEq(src, input, hp, 4)
    THEN IF len_ >= 16 /\ 4 < len_
         THEN IF MemEq(src, input + 4, hp + 4, len_ - 4)
              THEN ExtHigh(input + len_, end, len_,
                           ExtendLoop(src, input + len_, hp + len_, end, len_))
              ELSE input + len_
         ELSE ExtHigh(input + 4, end, 4, ExtendLoop(src, input + 4, hp + 4, end, 4))
    ELSE input + 4

\* One past the highest index match_len_simd (sse2) or the scalar fallback
\* reads of a[], given the length r it returns.
HighVec(sse2, max_len, r) ==
    IF sse2 /\ (r - (r % 16)) + 16 <= max_len THEN (r - (r % 16)) + 16
    ELSE IF r < max_len THEN r + 1
    ELSE r

HighSimd(sse2, src, input, hp, end, max_len) ==
    IF MemEq(src, input, hp, 4)
    THEN input + 4 + HighVec(sse2, max_len,
                             IF sse2 THEN match_len_simd(src, input + 4, hp + 4, max_len, 0)
                             ELSE ScalarLen(src, input + 4, hp + 4, max_len, 0))
    ELSE input + 4

CandHigh(b, src, input, hp, end, len_) ==
    CASE b = "simd_sse2"   -> HighSimd(TRUE, src, input, hp, end,
                                       ExtMax(end - (input + 4), PGLZ_MAX_MATCH - 4))
      [] b = "simd_scalar" -> HighSimd(FALSE, src, input, hp, end,
                                       ExtMax(end - (input + 4), PGLZ_MAX_MATCH - 4))
      [] OTHER             -> HighStep5(src, input, hp, end, len_)

\* Assert(hp >= source && hp < ip); Assert(hp + 4 <= end); fails, or the
\* candidate test reads outside the source buffer.
BadCand(cx, hp, len_) ==
    \/ ~(hp >= 0 /\ hp < cx.input)
    \/ ~(hp + 4 <= cx.end)
    \/ CandHigh(cx.build, cx.src, cx.input, hp, cx.end, len_) > Len(cx.src)

\* if (thislen > len) { len = thislen; off = thisoff; }
Best_Latest(len_, off_, thislen, thisoff) ==
    IF thislen >= len_ THEN [len |-> thislen, off |-> thisoff]
    ELSE [len |-> len_, off |-> off_]

Best(len_, off_, thislen, thisoff) ==
    IF thislen > len_ THEN [len |-> thislen, off |-> thisoff]
    ELSE [len |-> len_, off |-> off_]

\* if (++chain_len >= PGLZ_MAX_CHAIN) break;
ChainFull_Late(chain_len) == chain_len > PGLZ_MAX_CHAIN

ChainFull(chain_len) == chain_len >= PGLZ_MAX_CHAIN

\* The chain walk.  cx holds what the walk does not change: the build, the
\* source, input, end and good_drop.  w holds the locals at the loop test:
\* hentno, len, off, chain_len and good_match, whether a break was taken
\* (stop), and what the walk observed: a read of a cell this call did not
\* write (leak), a failed Assert or a read outside the source (unsafe).
\* FindAt is the window check and the candidate test of one iteration,
\* FindNext the part from next_entry; FindLoop runs at most n iterations,
\* FindFrom runs them in blocks of WalkBlock.
FindNext(cx, nxt, best, w, bad) ==
    [hentno     |-> nxt,
     len        |-> best.len,
     off        |-> best.off,
     chain_len  |-> w.chain_len + 1,
     good_match |-> IF ~ChainFull(w.chain_len + 1) /\ nxt # PGLZ_INVALID_ENTRY
                       /\ ~(best.len >= w.good_match)
                    THEN w.good_match - (w.good_match * cx.good_drop) \div 100
                    ELSE w.good_match,
     stop       |-> \/ ChainFull(w.chain_len + 1)
                    \/ (nxt # PGLZ_INVALID_ENTRY /\ best.len >= w.good_match),
     leak       |-> w.leak,
     unsafe     |-> w.unsafe \/ bad]

FindAt(cx, hent, w) ==
    IF cx.input - hent.pos >= 4095
    THEN [w EXCEPT !.stop = TRUE]
    ELSE FindNext(cx, hent.next,
                  Best(w.len, w.off,
                       CandLen(cx.build, cx.src, cx.input, hent.pos, cx.end, w.len),
                       cx.input - hent.pos),
                  w, BadCand(cx, hent.pos, w.len))

RECURSIVE FindLoop(_, _, _, _)
FindLoop(cx, h, w, n) ==
    IF n = 0 \/ w.stop \/ w.hentno = PGLZ_INVALID_ENTRY
    THEN w
    ELSE FindLoop(cx, h,
                  FindAt(cx, HEntry(h.he, w.hentno),
                         [w EXCEPT !.leak = @ \/ StaleSlot(h, w.hentno)]),
                  n - 1)

RECURSIVE FindBlocks(_, _, _, _)
FindBlocks(cx, h, w, blocks) ==
    IF blocks = 0 \/ w.stop \/ w.hentno = PGLZ_INVALID_ENTRY
    THEN w
    ELSE FindBlocks(cx, h, FindLoop(cx, h, w, WalkBlock), blocks - 1)

\* if (len > 2) { *lenp = len; *offp = off; return 1; } return 0;
FindResult(w) ==
    [found |-> w.len > 2, len |-> w.len, off |-> w.off,
     chain_len |-> w.chain_len, leak |-> w.leak, unsafe |-> w.unsafe]

\* hentno = hstart[hidx] and the walk from it
FindFrom(cx, h, hidx, good_match_) ==
    FindBlocks(cx, h,
               [hentno |-> HStart(h.hs, hidx), len |-> 0, off |-> 0,
                chain_len |-> 0, good_match |-> good_match_, stop |-> FALSE,
                leak |-> StaleHead(h, hidx),
                unsafe |-> BadIdx(Len(cx.src), cx.input, cx.end)],
               WalkBlocks)

pglz_find_match(b, h, src, input, end, good_match_, good_drop_, mask_) ==
    FindResult(FindFrom([build |-> b, src |-> src, input |-> input, end |-> end,
                         good_drop |-> good_drop_],
                        h, pglz_hist_idx(src, input, end, mask_), good_match_))

(***************************************************************************)
(* pglz_compress: the values computed before the main loop.                *)
(***************************************************************************)
GoodMatch(S) ==
    IF S.match_size_good > PGLZ_MAX_MATCH THEN PGLZ_MAX_MATCH
    ELSE IF S.match_size_good < 17 THEN 17
    ELSE S.match_size_good

GoodDrop(S) ==
    IF S.match_size_drop < 0 THEN 0
    ELSE IF S.match_size_drop > 100 THEN 100
    ELSE S.match_size_drop

NeedRate_Unclamped(S) == S.min_comp_rate

NeedRate(S) ==
    IF S.min_comp_rate < 0 THEN 0
    ELSE IF S.min_comp_rate > 99 THEN 99
    ELSE S.min_comp_rate

ResultMax_Loose(S, n) == 2 * n

ResultMax(S, n) ==
    IF n > INT_MAX \div 100
    THEN (n \div 100) * (100 - NeedRate(S))
    ELSE (n * (100 - NeedRate(S))) \div 100

HashSz(n) ==
    IF n < 128 THEN 512
    ELSE IF n < 256 THEN 1024
    ELSE IF n < 512 THEN 2048
    ELSE IF n < 1024 THEN 4096
    ELSE 8192

Refused_NoMax(S, n) ==
    \/ S.match_size_good <= 0
    \/ n < S.min_input_size

Refused(S, n) ==
    \/ S.match_size_good <= 0
    \/ n < S.min_input_size
    \/ n > S.max_input_size

\* bool skip_after_match as each variant's pglz_compress sees it: the
\* strategy-skip variant reads the flag, the SIMD variant has no skip path,
\* the step6 variant always skips.
SkipAfterMatch_Always(b, S) == TRUE

SkipAfterMatch(b, S) ==
    CASE b = "skip"  -> S.skip_after_match
      [] b = "step6" -> TRUE
      [] OTHER       -> FALSE

good_match == GoodMatch(strategy)
good_drop == GoodDrop(strategy)
need_rate == NeedRate(strategy)
result_max == ResultMax(strategy, slen)
hashsz == HashSz(slen)
mask == hashsz - 1
skip_after_match == SkipAfterMatch(build, strategy)

(***************************************************************************)
(* pglz_compress, one action per step.                                     *)
(*   "entry": the call was made, the locals hold their initialisers        *)
(*   "main" : in the body of while (dp < dend - 3)                         *)
(*   "adds" : before while (match_len--)                                   *)
(*   "adding" : at the test of while (match_len--) after an iteration      *)
(*   "tail" : at the test of while (dp < dend)                             *)
(*   "done" : returned, ret is the return value                            *)
(***************************************************************************)
LoopPc_NoMargin(d) == IF d < dend THEN "main" ELSE "tail"

LoopPc(d) == IF d < dend - 3 THEN "main" ELSE "tail"

\* The locals of pglz_compress as their declarations initialise them.
EnterCompress(b, x, S) ==
    /\ build' = b
    /\ source' = x
    /\ strategy' = S
    /\ hist_next' = 0
    /\ hist_recycle' = FALSE
    /\ dp' = 0
    /\ dest' = << >>
    /\ ctrlp' = -1
    /\ ctrlb' = 0
    /\ ctrl' = 0
    /\ found_match' = FALSE
    /\ match_len' = 0
    /\ ret' = 0
    /\ items' = << >>
    /\ fresh' = [heads |-> 0, slots |-> 0]
    /\ leak' = FALSE
    /\ obs' = NoObs
    /\ pc' = "entry"

SetHist(h) ==
    /\ hist_start' = h.hs
    /\ hist_entries' = h.he
    /\ hist_next' = h.next
    /\ hist_recycle' = h.recycle
    /\ fresh' = h.fresh
    /\ leak' = h.leak
    /\ obs' = h.obs

SetWriter(w) ==
    /\ dest' = w.dest
    /\ ctrlp' = w.ctrlp
    /\ ctrlb' = w.ctrlb
    /\ ctrl' = w.ctrl

Return(v) ==
    /\ ret' = v
    /\ pc' = "done"

\* The strategy checks and the reset of the bucket heads.
Preflight ==
    /\ pc = "entry"
    /\ IF Refused(strategy, slen)
       THEN /\ Return(-1)
            /\ UNCHANGED <<hist_start, hist_entries, hist_next, hist_recycle,
                           fresh, leak, obs>>
       ELSE /\ SetHist(ResetHeads(Hist, hashsz))
            /\ pc' = LoopPc(dp)
            /\ ret' = ret
    /\ UNCHANGED <<build, source, strategy, dp, dest, ctrlp, ctrlb, ctrl,
                   found_match, match_len, items, calls, prev, dvars>>

Literal(at) == [tag |-> FALSE, len |-> 1, off |-> 0, at |-> at]
Backref(at, l, o) == [tag |-> TRUE, len |-> l, off |-> o, at |-> at]

\* dp += match_len; if (dp > dend) dp = dend;
SkipJump_Short(d, l, end) == IF d + l - 1 > end THEN end ELSE d + l - 1

SkipJump(d, l, end) == IF d + l > end THEN end ELSE d + l

\* The body of while (dp < dend - 3) after the two size checks, up to the
\* first pglz_hist_add: m is what pglz_find_match returned, h0 the history
\* after it.
MainItem(m, h0) ==
    IF m.found
    THEN /\ SetWriter(pglz_out_tag(Writer, m.len, m.off))
         /\ items' = Append(items, Backref(dp, m.len, m.off))
         /\ ret' = ret
         /\ match_len' = m.len
         /\ IF skip_after_match
            THEN /\ SetHist(pglz_hist_add(h0, source, dp, dend, mask))
                 /\ dp' = SkipJump(dp, m.len, dend)
                 /\ found_match' = TRUE
                 /\ pc' = LoopPc(SkipJump(dp, m.len, dend))
            ELSE /\ SetHist(h0)
                 /\ pc' = "adds"
                 /\ UNCHANGED <<dp, found_match>>
    ELSE /\ SetWriter(pglz_out_literal(Writer, At(source, dp, 0)))
         /\ items' = Append(items, Literal(dp))
         /\ SetHist(pglz_hist_add(h0, source, dp, dend, mask))
         /\ dp' = dp + 1
         /\ pc' = LoopPc(dp + 1)
         /\ UNCHANGED <<found_match, match_len, ret>>

\* obs after a pglz_find_match call that returned m with end - input = room
Seen(o, m, room) ==
    [o EXCEPT !.finds = @ + 1,
              !.chain = IF m.chain_len > @ THEN m.chain_len ELSE @,
              !.room = Min(@, room),
              !.unsafe = @ \/ m.unsafe]

MainFound(m) ==
    MainItem(m, [Hist EXCEPT !.leak = @ \/ m.leak, !.obs = Seen(@, m, dend - dp)])

\* if (!found_match && bp - bstart >= strategy->first_success_by)
NoSuccess_Ever(found, size, S) == size >= S.first_success_by

NoSuccess(found, size, S) == ~found /\ size >= S.first_success_by

\* One iteration of while (dp < dend - 3), up to the first pglz_hist_add.
MainStep ==
    /\ pc = "main"
    /\ IF \/ bp >= result_max
          \/ NoSuccess(found_match, bp, strategy)
       THEN /\ Return(-1)
            /\ UNCHANGED <<hist_start, hist_entries, hist_next, hist_recycle,
                           fresh, leak, obs, dp, dest, ctrlp, ctrlb, ctrl, found_match,
                           match_len, items>>
       ELSE MainFound(pglz_find_match(build, Hist, source, dp, dend, good_match,
                                      good_drop, mask))
    /\ UNCHANGED <<build, source, strategy, calls, prev, dvars>>

\* One iteration of while (match_len--) { pglz_hist_add(dp); dp++; }
\* on st, the history, dp and match_len at the loop test.
AddStep_NoInsert(st, src, end, mask_) ==
    [h         |-> st.h,
     dp        |-> st.dp + 1,
     match_len |-> st.match_len - 1]

AddStep(st, src, end, mask_) ==
    [h         |-> pglz_hist_add(st.h, src, st.dp, end, mask_),
     dp        |-> st.dp + 1,
     match_len |-> st.match_len - 1]

RECURSIVE AddLoop(_, _, _, _, _)
AddLoop(st, src, end, mask_, n) ==
    IF n = 0 \/ st.match_len = 0 THEN st
    ELSE AddLoop(AddStep(st, src, end, mask_), src, end, mask_, n - 1)

RECURSIVE AddBlocks(_, _, _, _, _)
AddBlocks(st, src, end, mask_, blocks) ==
    IF blocks = 0 \/ st.match_len = 0 THEN st
    ELSE AddBlocks(AddLoop(st, src, end, mask_, WalkBlock), src, end, mask_,
                   blocks - 1)

\* The state the loop leaves: the test that fails decrements match_len to -1.
AfterAdds(st) ==
    /\ SetHist(st.h)
    /\ dp' = st.dp
    /\ match_len' = -1
    /\ found_match' = TRUE
    /\ pc' = LoopPc(st.dp)

\* while (match_len--) { pglz_hist_add(dp); dp++; } found_match = true;
MatchAdd ==
    /\ pc = "adds"
    /\ AfterAdds(AddBlocks([h |-> Hist, dp |-> dp, match_len |-> match_len],
                           source, dend, mask, WalkBlocks))
    /\ UNCHANGED <<build, source, strategy, dest, ctrlp, ctrlb, ctrl, ret, items,
                   calls, prev, dvars>>

\* One iteration of while (dp < dend)
TailStep ==
    /\ pc = "tail"
    /\ dp < dend
    /\ IF bp >= result_max
       THEN /\ Return(-1)
            /\ UNCHANGED <<hist_start, hist_entries, hist_next, hist_recycle,
                           fresh, leak, obs, dp, dest, ctrlp, ctrlb, ctrl, items>>
       ELSE /\ SetWriter(pglz_out_literal(Writer, At(source, dp, 0)))
            /\ items' = Append(items, Literal(dp))
            /\ SetHist(pglz_hist_add(Hist, source, dp, dend, mask))
            /\ dp' = dp + 1
            /\ pc' = "tail"
            /\ ret' = ret
    /\ UNCHANGED <<build, source, strategy, found_match, match_len, calls, prev,
                   dvars>>

\* *ctrlp = ctrlb;
FinalCtrl_Skipped(d, p, b) == d

FinalCtrl(d, p, b) == Store(d, p, b)

\* result_size = bp - bstart; if (result_size >= result_max) return -1;
FinalSize_Unchecked(size, rmax) == size

FinalSize(size, rmax) == IF size >= rmax THEN -1 ELSE size

Finish ==
    /\ pc = "tail"
    /\ ~(dp < dend)
    /\ dest' = FinalCtrl(dest, ctrlp, ctrlb)
    /\ Return(FinalSize(bp, result_max))
    /\ UNCHANGED <<build, source, strategy, hist_start, hist_entries, hist_next,
                   hist_recycle, fresh, leak, obs, dp, ctrlp, ctrlb, ctrl, found_match,
                   match_len, items, calls, prev, dvars>>

Compress == Preflight \/ MainStep \/ MatchAdd \/ TailStep \/ Finish

\* The same loop one test of while (match_len--) at a time, an iteration or
\* the exit, so that the state between two pglz_hist_add calls is a state;
\* pc is "adding" at the loop test after an iteration.
MatchAddOne ==
    /\ pc \in {"adds", "adding"}
    /\ IF match_len = 0
       THEN AfterAdds([h |-> Hist, dp |-> dp, match_len |-> match_len])
       ELSE LET st == AddStep([h |-> Hist, dp |-> dp, match_len |-> match_len],
                              source, dend, mask)
            IN  /\ SetHist(st.h)
                /\ dp' = st.dp
                /\ match_len' = st.match_len
                /\ pc' = "adding"
                /\ UNCHANGED found_match
    /\ UNCHANGED <<build, source, strategy, dest, ctrlp, ctrlb, ctrl, ret, items,
                   calls, prev, dvars>>

(***************************************************************************)
(* pglz_decompress, one action per step.  The three variants carry the     *)
(* same function text.                                                      *)
(*   "d_outer": at the test of while (sp < srcend && dp < destend)         *)
(*   "d_inner": at the test of the for loop over the control bits          *)
(*   "d_copy" : at the test of while (off < len)                           *)
(*   "d_done" : returned, dret is the return value                         *)
(***************************************************************************)
srcend == Len(dsrc)
destend == rawsize
ddp == Len(ddest)

\* The values a read outside the source buffer, or of a byte nobody wrote,
\* may yield.
GarbageBytes == {0, 255}

\* sp[i] read as unsigned char; g is what an indeterminate read yields
SrcByte(i, g) ==
    LET v == At(dsrc, i, g) IN IF v = UNWRITTEN THEN g ELSE v

EnterDecompress(s, r, c) ==
    /\ dsrc' = s
    /\ rawsize' = r
    /\ check_complete' = c
    /\ sp' = 0
    /\ ddest' = << >>
    /\ dctrl' = 0
    /\ ctrlc' = 0
    /\ len' = 0
    /\ off' = 0
    /\ dret' = 0
    /\ tag' = [n |-> 0]
    /\ pc' = "d_outer"

DReturn(v) ==
    /\ dret' = v
    /\ pc' = "d_done"

\* unsigned char ctrl = *sp++;
DecOuter ==
    /\ pc = "d_outer"
    /\ sp < srcend /\ ddp < destend
    /\ \E g \in GarbageBytes : dctrl' = SrcByte(sp, g)
    /\ sp' = sp + 1
    /\ ctrlc' = 0
    /\ pc' = "d_inner"
    /\ UNCHANGED <<cvars, dsrc, rawsize, check_complete, ddest, len, off, dret, tag>>

\* The completion check after the outer loop.
DecResult_Both(strict, d, dstend, s, send) ==
    IF strict /\ (d # dstend /\ s # send) THEN -1 ELSE d

DecResult(strict, d, dstend, s, send) ==
    IF strict /\ (d # dstend \/ s # send) THEN -1 ELSE d

DecReturn ==
    /\ pc = "d_outer"
    /\ ~(sp < srcend /\ ddp < destend)
    /\ DReturn(DecResult(check_complete, ddp, destend, sp, srcend))
    /\ UNCHANGED <<cvars, dsrc, rawsize, check_complete, sp, ddest, dctrl, ctrlc,
                   len, off, tag>>

\* The tag decode: len, off and the advanced sp from the bytes at sp.
TagDecode_NoExt(b0, b1, b2, s) ==
    [len |-> BitAnd(b0, 15) + 3, off |-> BitOr(BitAnd(b0, 240) * 16, b1),
     sp |-> s + 2]

TagDecode(b0, b1, b2, s) ==
    LET l0 == BitAnd(b0, 15) + 3
        o  == BitOr(BitAnd(b0, 240) * 16, b1)
    IN  IF l0 = 18
        THEN [len |-> l0 + b2, off |-> o, sp |-> s + 3]
        ELSE [len |-> l0, off |-> o, sp |-> s + 2]

\* sp > srcend || off == 0 || off > (dp - dest)
BadTag_ZeroOff(t, send, d) == t.sp > send \/ t.off > d

BadTag(t, send, d) == t.sp > send \/ t.off = 0 \/ t.off > d

\* len = Min(len, destend - dp)
ClampLen_Unclamped(l, dstend, d) == l

ClampLen(l, dstend, d) == Min(l, dstend - d)

\* memcpy(dp, dp - off, n); dp += n, on the bytes written so far.  A source
\* byte at or beyond dp has not been written.
Memcpy_FirstByte(d, from, n) ==
    d \o [k \in 1 .. n |-> At(d, from, UNWRITTEN)]

Memcpy(d, from, n) ==
    d \o [k \in 1 .. n |-> At(d, from + k - 1, UNWRITTEN)]

\* off += off
Doubled_Plus1(o) == o + 1

Doubled(o) == o + o

\* One item of the for loop: a tag up to its validity check, or a literal.
DecItem ==
    /\ pc = "d_inner"
    /\ IF ctrlc < 8 /\ sp < srcend /\ ddp < destend
       THEN IF BitAnd(dctrl, 1) = 1
            THEN \E g0 \in GarbageBytes, g1 \in GarbageBytes, g2 \in GarbageBytes :
                 LET t == TagDecode(SrcByte(sp, g0), SrcByte(sp + 1, g1),
                                    SrcByte(sp + 2, g2), sp)
                     bad == BadTag(t, srcend, ddp)
                 IN  /\ tag' = [n |-> tag.n + 1, len |-> t.len, off |-> t.off,
                                from |-> sp, to |-> t.sp, at |-> ddp, bad |-> bad]
                     /\ IF bad
                        THEN /\ DReturn(-1)
                             /\ UNCHANGED <<sp, len, off>>
                        ELSE /\ len' = ClampLen(t.len, destend, ddp)
                             /\ off' = t.off
                             /\ sp' = t.sp
                             /\ pc' = "d_copy"
                             /\ dret' = dret
                     /\ UNCHANGED <<ddest, dctrl, ctrlc>>
            ELSE /\ \E g \in GarbageBytes : ddest' = Append(ddest, SrcByte(sp, g))
                 /\ sp' = sp + 1
                 /\ dctrl' = dctrl \div 2
                 /\ ctrlc' = ctrlc + 1
                 /\ pc' = "d_inner"
                 /\ UNCHANGED <<len, off, dret, tag>>
       ELSE /\ pc' = "d_outer"
            /\ UNCHANGED <<sp, ddest, dctrl, ctrlc, len, off, dret, tag>>
    /\ UNCHANGED <<cvars, dsrc, rawsize, check_complete>>

\* One iteration of while (off < len), or the final memcpy after it.
DecCopy ==
    /\ pc = "d_copy"
    /\ IF off < len
       THEN /\ ddest' = Memcpy(ddest, ddp - off, off)
            /\ len' = len - off
            /\ off' = Doubled(off)
            /\ pc' = "d_copy"
            /\ UNCHANGED <<dctrl, ctrlc>>
       ELSE /\ ddest' = Memcpy(ddest, ddp - off, len)
            /\ dctrl' = dctrl \div 2
            /\ ctrlc' = ctrlc + 1
            /\ pc' = "d_inner"
            /\ UNCHANGED <<len, off>>
    /\ UNCHANGED <<cvars, dsrc, rawsize, check_complete, sp, dret, tag>>

Decompress == DecOuter \/ DecReturn \/ DecItem \/ DecCopy

(***************************************************************************)
(* pglz_maximum_compressed_size, the same text in the three variants.      *)
(***************************************************************************)
\* compressed_size = ((int64) rawsize * 9 + 7) / 8 + 2, without the + 2
pglz_maximum_compressed_size_NoSlack(rawsize_, total_compressed_size) ==
    Min((rawsize_ * 9 + 7) \div 8, total_compressed_size)

pglz_maximum_compressed_size(rawsize_, total_compressed_size) ==
    Min((rawsize_ * 9 + 7) \div 8 + 2, total_compressed_size)

(***************************************************************************)
(* Inputs.                                                                 *)
(***************************************************************************)
Builds == {"skip", "simd_sse2", "simd_scalar", "step6"}

Alphabet == {97, 98}

SeqsUpTo(A, n) == UNION {[1 .. k -> A] : k \in 0 .. n}

\* Strategies beside the three the variants define: small gates that inputs
\* of a few bytes reach, and fields outside the ranges the preflight clamps.
StrategySmall == Strategy(4, INT_MAX, 10, 5, 4, 100, TRUE)
StrategyClamp == Strategy(2, 6, -7, INT_MAX, 1000, -3, FALSE)
StrategyRate == Strategy(0, INT_MAX, 120, INT_MAX, 128, 6, TRUE)
StrategyForbid == Strategy(0, INT_MAX, 0, INT_MAX, 0, 10, FALSE)

Strategies == {PGLZ_strategy_default, PGLZ_strategy_always, PGLZ_strategy_skip,
               StrategySmall, StrategyClamp, StrategyRate, StrategyForbid}

\* Every byte string over Alphabet of at most MaxLen bytes.
ShortInputs == SeqsUpTo(Alphabet, MaxLen)

\* Longer inputs: p distinct bytes, then three runs of 'a' separated by
\* "b" and "bb".  The runs give chains of several candidates, matches that
\* need a 3-byte tag, and extensions longer than one 16-byte vector.
Run(c, n) == [k \in 1 .. n |-> c]
Distinct(p) == [k \in 1 .. p |-> 100 + k]
RunLens == {2, 7, MaxRun - 4, MaxRun}
LongInputs ==
    {Distinct(p) \o Run(97, i) \o <<98>> \o Run(97, j) \o <<98, 98>> \o Run(97, k) :
        p \in {0, 9}, i \in RunLens, j \in RunLens, k \in RunLens}

Inputs == ShortInputs \cup LongInputs

(***************************************************************************)
(* Spec: one process links one variant, calls pglz_compress once on any    *)
(* input with any strategy, and decompresses a successful result with      *)
(* rawsize = slen and check_complete = true.                               *)
(***************************************************************************)
IdleDecompress ==
    /\ dsrc = << >>
    /\ rawsize = 0
    /\ check_complete = FALSE
    /\ sp = 0
    /\ ddest = << >>
    /\ dctrl = 0
    /\ ctrlc = 0
    /\ len = 0
    /\ off = 0
    /\ dret = 0
    /\ tag = [n |-> 0]

\* The process image before any call: the statics hold their zero
\* initialisers.
FirstCall(B, X, SS) ==
    /\ build \in B
    /\ source \in X
    /\ strategy \in SS
    /\ hist_start = NoHeads
    /\ hist_entries = << >>
    /\ hist_next = 0
    /\ hist_recycle = FALSE
    /\ dp = 0
    /\ dest = << >>
    /\ ctrlp = -1
    /\ ctrlb = 0
    /\ ctrl = 0
    /\ found_match = FALSE
    /\ match_len = 0
    /\ ret = 0
    /\ items = << >>
    /\ calls = 1
    /\ prev = << >>
    /\ fresh = [heads |-> 0, slots |-> 0]
    /\ leak = FALSE
    /\ obs = NoObs

Init ==
    /\ FirstCall(Builds, Inputs, Strategies)
    /\ IdleDecompress
    /\ pc = "entry"

\* pglz_decompress(dest, ret, out, slen, true) after a successful call
RoundTrip ==
    /\ pc = "done"
    /\ ret >= 0
    /\ EnterDecompress(SubSeq(dest, 1, ret), slen, TRUE)
    /\ UNCHANGED cvars

Next == Compress \/ RoundTrip \/ Decompress

Spec == Init /\ [][Next]_vars

(***************************************************************************)
(* Properties of one compress call and its round trip, checked under Spec. *)
(***************************************************************************)
Returned == pc \notin {"entry", "main", "adds", "adding", "tail"}

\* C1: whenever pglz_compress of any variant returns c >= 0 for input x under
\* any strategy, the strict pglz_decompress of the c bytes with rawsize =
\* slen returns slen and reproduces x byte for byte.
Inv_C1 ==
    pc = "d_done" => (dret = slen /\ ddest = source)

Wit_C1 ==
    /\ pc = "d_done"
    /\ dret = slen
    /\ ddest = source
    /\ tag.n >= 2
    /\ build = "simd_sse2"
    /\ \E i \in 1 .. Len(items) : items[i].tag /\ items[i].len >= 18

\* C4: the value pglz_compress returns is -1 or a c with 0 < c and
\* c < slen * (100 - min_comp_rate) / 100.
Inv_C4 ==
    Returned =>
        \/ ret = -1
        \/ (0 < ret /\ ret * 100 < slen * (100 - strategy.min_comp_rate))

Wit_C4 ==
    /\ pc = "done"
    /\ ret > 0
    /\ strategy = PGLZ_strategy_default
    /\ Len(items) >= 3

\* The stream the format prescribes for a sequence of items: groups of
\* eight items, each preceded by a control byte whose bit i says whether
\* item i of the group is a tag.
ItemBytes(it) ==
    IF ~it.tag THEN << source[it.at + 1] >>
    ELSE IF it.len <= 17
    THEN << (it.off \div 256) * 16 + (it.len - 3), it.off % 256 >>
    ELSE << (it.off \div 256) * 16 + 15, it.off % 256, it.len - 18 >>

RECURSIVE GroupCtrl(_, _)
GroupCtrl(grp, i) ==
    IF i > Len(grp) THEN 0
    ELSE (IF grp[i].tag THEN 2 ^ (i - 1) ELSE 0) + GroupCtrl(grp, i + 1)

RECURSIVE GroupBody(_, _)
GroupBody(grp, i) ==
    IF i > Len(grp) THEN << >> ELSE ItemBytes(grp[i]) \o GroupBody(grp, i + 1)

RECURSIVE Layout(_)
Layout(its) ==
    IF Len(its) = 0 THEN << >>
    ELSE LET n   == Min(8, Len(its))
             grp == SubSeq(its, 1, n)
         IN  << GroupCtrl(grp, 1) >> \o GroupBody(grp, 1)
                \o Layout(SubSeq(its, n + 1, Len(its)))

\* C9: when a call succeeds its output is a sequence of groups, each a
\* control byte followed by 1 to 8 items, only the last group shorter than
\* 8; bit i of the control byte is 1 exactly when item i is a tag, the
\* unused high bits of the last control byte are 0, and the last control
\* byte is stored before the function returns.
Inv_C9 ==
    (Returned /\ ret >= 0) => (ret = Len(dest) /\ dest = Layout(items))

Wit_C9 ==
    /\ pc = "done"
    /\ ret > 0
    /\ Len(items) > 8
    /\ Len(items) % 8 \in 2 .. 7
    /\ items[Len(items)].tag
    /\ ~items[Len(items) - 1].tag

\* C10: every tag the compressor emits at position dp has
\* 3 <= len <= min(273, dend - dp), 1 <= off <= 4095, off <= dp - source,
\* and the len bytes at dp equal the len bytes at dp - off.
ValidBackref(it) ==
    /\ 3 <= it.len
    /\ it.len <= Min(PGLZ_MAX_MATCH, dend - it.at)
    /\ 1 <= it.off
    /\ it.off <= 4095
    /\ it.off <= it.at
    /\ \A k \in 0 .. it.len - 1 :
          source[it.at + k + 1] = source[it.at - it.off + k + 1]

DecBytes == {0, 1, 6, 15, 255}

DecSources == SeqsUpTo(DecBytes, MaxDecLen)

\* A pglz_decompress call on a source of Srcs, before its first step.
DecStart(Srcs) ==
    /\ FirstCall({"skip"}, {<< >>}, {PGLZ_strategy_always})
    /\ dsrc \in Srcs
    /\ rawsize \in 0 .. MaxRaw
    /\ check_complete \in BOOLEAN
    /\ sp = 0
    /\ ddest = << >>
    /\ dctrl = 0
    /\ ctrlc = 0
    /\ len = 0
    /\ off = 0
    /\ dret = 0
    /\ tag = [n |-> 0]
    /\ pc = "d_outer"

InitDec == DecStart(DecSources)

NextDec == DecOuter \/ DecReturn \/ DecItem \/ DecCopy

SpecDec == InitDec /\ [][NextDec]_vars

\* A decoded tag with offset 0, an offset larger than the number of bytes
\* already written, or tag bytes that extend past the end of the source.
Malformed(t) == t.off = 0 \/ t.off > t.at \/ t.to > srcend

\* The call returned -1 and wrote no byte for the malformed tag it decoded.
RejectsMalformed ==
    (tag.n > 0 /\ Malformed(tag)) => (pc = "d_done" /\ dret = -1 /\ ddp = tag.at)

\* C2 (as stated): in strict and non-strict mode alike a malformed decoded
\* tag makes pglz_decompress return -1 with no byte written for that tag,
\* and the source 01 00 00 returns -1 with nothing written.
Orig_C2 ==
    /\ RejectsMalformed
    /\ (dsrc = <<1, 0, 0>> /\ pc = "d_done") => (dret = -1 /\ ddest = << >>)

\* C2: in strict and non-strict mode alike a malformed decoded tag makes
\* pglz_decompress return -1 with no byte written for that tag; the source
\* 01 00 00 returns -1 with nothing written whenever rawsize > 0 or
\* check_complete is true.  (With rawsize = 0 the loop decodes nothing, and
\* the non-strict call returns 0.)
Inv_C2 ==
    /\ RejectsMalformed
    /\ (dsrc = <<1, 0, 0>> /\ pc = "d_done" /\ (rawsize > 0 \/ check_complete)) =>
           (dret = -1 /\ ddest = << >>)

Wit_C2 ==
    /\ pc = "d_done"
    /\ ~check_complete
    /\ tag.n >= 2
    /\ tag.to > srcend
    /\ tag.at > 0
    /\ dret = -1
    /\ ddp = tag.at

\* C3: for every source buffer and every rawsize, in both modes,
\* pglz_decompress keeps dp - dest <= rawsize: it writes no byte at or
\* beyond dest[rawsize].
Inv_C3 ==
    ddp <= rawsize

Wit_C3 ==
    /\ pc = "d_done"
    /\ tag.n > 0
    /\ ~Malformed(tag)
    /\ tag.len > rawsize - tag.at
    /\ ddp = rawsize
    /\ rawsize > 0

\* C5: with check_complete = true pglz_decompress returns a value >= 0 only
\* if it stopped with dp = destend and sp = srcend, and that value is
\* rawsize; stopping anywhere else returns -1.  With check_complete = false
\* and no bad tag it returns the number of bytes written, at most rawsize.
Inv_C5 ==
    pc = "d_done" =>
        /\ check_complete =>
              /\ dret >= 0 => (ddp = destend /\ sp = srcend /\ dret = rawsize)
              /\ ~(ddp = destend /\ sp = srcend) => dret = -1
        /\ (~check_complete /\ ~(tag.n > 0 /\ Malformed(tag))) =>
              (dret = ddp /\ dret <= rawsize)

Wit_C5 ==
    /\ pc = "d_done"
    /\ check_complete
    /\ dret = -1
    /\ ddp = destend
    /\ sp < srcend
    /\ rawsize > 0
    /\ tag.n > 0
    /\ ~Malformed(tag)

(***************************************************************************)
(* SpecTag: pglz_out_tag on a fresh output buffer, for the lengths and     *)
(* offsets a tag can carry, followed by the tag decode of pglz_decompress  *)
(* on the bytes it stored.                                                 *)
(*   "t_enc" : before the call of pglz_out_tag                             *)
(*   "t_dec" : the tag is stored, before the decode                        *)
(*   "t_done": decoded                                                     *)
(***************************************************************************)
\* Every length with the two ends of each value of the offset's high
\* nibble, and every offset with the lengths at the ends of the 2-byte and
\* of the 3-byte form.
TagPairs ==
    {<<l, o>> : l \in 3 .. PGLZ_MAX_MATCH,
                o \in {1} \cup {256 * h : h \in 1 .. 15}
                          \cup {256 * h + 255 : h \in 0 .. 15}}
    \cup {<<l, o>> : l \in {3, 17, 18, PGLZ_MAX_MATCH}, o \in 1 .. 4095}

InitTag ==
    /\ FirstCall({"skip"}, {<< >>}, {PGLZ_strategy_always})
    /\ IdleDecompress
    /\ pc = "t_enc"

\* pglz_out_tag(ctrlp, ctrlb, ctrl, bp, l, o)
TagWrite ==
    /\ pc = "t_enc"
    /\ \E p \in TagPairs :
          /\ SetWriter(pglz_out_tag(Writer, p[1], p[2]))
          /\ items' = << Backref(0, p[1], p[2]) >>
    /\ pc' = "t_dec"
    /\ UNCHANGED <<build, source, strategy, hist_start, hist_entries, hist_next,
                   hist_recycle, dp, found_match, match_len, ret, calls, prev,
                   fresh, leak, obs, dvars>>

\* The tag decode of pglz_decompress with sp at the first tag byte.
TagRead ==
    /\ pc = "t_dec"
    /\ dsrc' = dest
    /\ \E g \in GarbageBytes :
          LET s == ctrlp + 1
              t == TagDecode(At(dest, s, g), At(dest, s + 1, g), At(dest, s + 2, g), s)
          IN  /\ tag' = [n |-> 1, len |-> t.len, off |-> t.off, from |-> s,
                         to |-> t.sp, at |-> 0, bad |-> BadTag(t, Len(dest), 0)]
              /\ len' = t.len
              /\ off' = t.off
              /\ sp' = t.sp
    /\ pc' = "t_done"
    /\ UNCHANGED <<cvars, rawsize, check_complete, ddest, dctrl, ctrlc, dret>>

NextTag == TagWrite \/ TagRead

SpecTag == InitTag /\ [][NextTag]_vars

\* C8: for every len in 3..273 and off in 1..4095 pglz_out_tag writes the 2
\* bytes [((off & 0xf00) >> 4) | (len - 3), off & 0xff] when len <= 17 and
\* the 3 bytes [((off & 0xf00) >> 4) | 0x0f, off & 0xff, len - 18] when
\* len >= 18, and the tag decode of pglz_decompress on those bytes yields the
\* same (len, off) and consumes exactly the bytes written.
Inv_C8 ==
    pc \in {"t_dec", "t_done"} =>
        LET it    == items[1]
            bytes == SubSeq(dest, ctrlp + 2, Len(dest))
        IN  /\ it.len <= 17 =>
                  bytes = << (it.off \div 256) * 16 + (it.len - 3), it.off % 256 >>
            /\ it.len >= 18 =>
                  bytes = << (it.off \div 256) * 16 + 15, it.off % 256,
                             it.len - 18 >>
            /\ pc = "t_done" =>
                  /\ tag.len = it.len
                  /\ tag.off = it.off
                  /\ tag.to - tag.from = Len(bytes)
                  /\ tag.to = Len(dest)

Wit_C8 ==
    /\ pc = "t_done"
    /\ items[1].len = 18
    /\ items[1].off = 4095
    /\ tag.len = 18
    /\ tag.off = 4095
    /\ tag.to - tag.from = 3

(***************************************************************************)
(* SpecPair: the strategy-skip variant compresses an input under a         *)
(* strategy with skip_after_match = false; then a process that links the   *)
(* SIMD variant, built with or without USE_SSE2, compresses the same       *)
(* input under the same strategy.  prev keeps the first result.            *)
(***************************************************************************)
PairStrategies == {[S EXCEPT !.skip_after_match = FALSE] : S \in Strategies}

Output == IF ret >= 0 THEN SubSeq(dest, 1, ret) ELSE << >>

Result == [build |-> build, source |-> source, strategy |-> strategy,
           ret |-> ret, out |-> Output]

InitPair ==
    /\ FirstCall({"skip"}, Inputs, PairStrategies)
    /\ IdleDecompress
    /\ pc = "entry"

OtherBuild ==
    /\ pc = "done"
    /\ calls = 1
    /\ \E b \in {"simd_sse2", "simd_scalar"} : EnterCompress(b, source, strategy)
    /\ hist_start' = NoHeads
    /\ hist_entries' = << >>
    /\ calls' = 2
    /\ prev' = << Result >>
    /\ UNCHANGED dvars

NextPair == Compress \/ OtherBuild

SpecPair == InitPair /\ [][NextPair]_vars

\* C6: for every input and every strategy with skip_after_match = false,
\* the SIMD variant (with USE_SSE2 and with the scalar fallback) returns the
\* same value and writes byte for byte the same output as the
\* strategy-skip variant.
Inv_C6 ==
    (pc = "done" /\ calls = 2) =>
        (ret = prev[1].ret /\ Output = prev[1].out)

Wit_C6 ==
    /\ pc = "done"
    /\ calls = 2
    /\ build = "simd_sse2"
    /\ prev[1].build = "skip"
    /\ ret > 0
    /\ Output = prev[1].out
    /\ \E i \in 1 .. Len(items) :
          items[i].tag /\ items[i].len >= 20 /\ items[i].len % 16 \notin {4}

(***************************************************************************)
(* SpecCalls: one process calls pglz_compress MaxCalls times.  The static  *)
(* arrays keep what the earlier calls left in them; prev keeps the earlier *)
(* results.                                                                *)
(***************************************************************************)
\* Inputs that share 4-byte groups at different positions, an input too
\* short for the main loop, and one of 128 bytes, for which hashsz is 1024.
CallArgs ==
    { << <<97, 98, 97, 98, 97, 98, 97, 98>>, PGLZ_strategy_always >>,
      << <<98, 97, 98, 97, 98, 97, 98, 97, 98>>, PGLZ_strategy_skip >>,
      << <<97, 97, 98, 97, 98, 97, 98>>, StrategySmall >>,
      << <<97, 98>>, PGLZ_strategy_always >>,
      << Distinct(4) \o Run(97, 60) \o Distinct(4) \o Run(97, 60),
         PGLZ_strategy_skip >> }

InitCalls ==
    /\ \E a \in CallArgs : FirstCall(Builds, {a[1]}, {a[2]})
    /\ IdleDecompress
    /\ pc = "entry"

NextCall ==
    /\ pc = "done"
    /\ calls < MaxCalls
    /\ \E a \in CallArgs : EnterCompress(build, a[1], a[2])
    /\ calls' = calls + 1
    /\ prev' = Append(prev, Result)
    /\ UNCHANGED <<hist_start, hist_entries, dvars>>

NextCalls == Compress \/ NextCall

SpecCalls == InitCalls /\ [][NextCalls]_vars

\* C7: the bytes pglz_compress writes and the value it returns depend only
\* on the call's source, slen and strategy, not on any earlier call in the
\* process; no read of hist_start or hist_entries returns a value that an
\* earlier call wrote.
Inv_C7 ==
    /\ ~leak
    /\ pc = "done" =>
          \A i \in 1 .. Len(prev) :
              (prev[i].source = source /\ prev[i].strategy = strategy) =>
                  (prev[i].ret = ret /\ prev[i].out = Output)

Wit_C7 ==
    /\ pc = "done"
    /\ calls = 3
    /\ slen < 128
    /\ ret > 0
    /\ prev[1].source = source
    /\ prev[1].strategy = strategy
    /\ prev[1].out = Output
    /\ Len(prev[2].source) = 128
    /\ prev[2].ret > 0
    /\ \E b \in DOMAIN hist_start.at : b >= 512 /\ hist_start.at[b] # PGLZ_INVALID_ENTRY

\* The call passed the preflight and has not yet run an iteration of either
\* loop.
AtLoopStart == pc \in {"main", "tail"} /\ obs.adds = 0

PrefixStrategies ==
    {PGLZ_strategy_always, [PGLZ_strategy_always EXCEPT !.skip_after_match = TRUE]}

InitPrefix ==
    /\ FirstCall({"skip"}, Inputs, PrefixStrategies)
    /\ IdleDecompress
    /\ pc = "entry"

PrefixCall ==
    /\ pc = "done"
    /\ ret >= 0
    /\ \E k \in 1 .. slen :
          EnterDecompress(SubSeq(dest, 1, pglz_maximum_compressed_size(k, ret)),
                          k, FALSE)
    /\ UNCHANGED cvars

NextPrefix == Compress \/ PrefixCall \/ Decompress

SpecPrefix == InitPrefix /\ [][NextPrefix]_vars

\* C11: pglz_maximum_compressed_size(rawsize, total) is
\* min(ceil(rawsize * 9 / 8) + 2, total), and for every stream of a
\* successful pglz_compress(x) and every k with 0 < k <= len(x), the
\* non-strict pglz_decompress of that many first bytes of the stream with
\* rawsize = k returns k and writes x[0 .. k-1].
Inv_C11 ==
    pc \in {"d_outer", "d_inner", "d_copy", "d_done"} =>
        /\ Len(dsrc) = Min(rawsize + (rawsize + 7) \div 8 + 2, ret)
        /\ pc = "d_done" => (dret = rawsize /\ ddest = SubSeq(source, 1, rawsize))

Wit_C11 ==
    /\ pc = "d_done"
    /\ dret = rawsize
    /\ rawsize < slen
    /\ Len(dsrc) < ret
    /\ Len(dsrc) = rawsize + (rawsize + 7) \div 8 + 2
    /\ tag.n > 0
    /\ tag.len >= 18
    /\ tag.to = srcend
    /\ ddest = SubSeq(source, 1, rawsize)

(***************************************************************************)
(* SpecBig: one call on an input long enough to fill the ring of           *)
(* PGLZ_HISTORY_SIZE + 1 entries, and its round trip.                      *)
(***************************************************************************)
\* How many bytes the same-byte input has beyond PGLZ_HISTORY_SIZE + 1.
MaxOver == 280
\* How many six-byte blocks the block input has beyond PGLZ_MAX_CHAIN.
MaxExtra == 3

\* gen_same_byte / gen_hash_collision: every 4-byte window hashes alike
SameByte(n) == Run(88, n)

\* "0123456789ABCDEF" repeated, cut at n bytes
Hex16 == <<48, 49, 50, 51, 52, 53, 54, 55, 56, 57, 65, 66, 67, 68, 69, 70>>
Rep16(n) == [k \in 1 .. n |-> Hex16[((k - 1) % 16) + 1]]

\* n bytes in which no 4-byte window occurs twice (the model of random
\* data): 256-byte stretches of an arithmetic progression, each stretch
\* with an odd step of its own
NoRepeat(n) == [k \in 1 .. n |-> ((k - 1) * (2 * ((k - 1) \div 256) + 1)) % 256]

\* n blocks "abcd" + two bytes that number the block: the "abcd" windows
\* share one bucket and match each other in 4 or 5 bytes only
Blocks(n) ==
    [k \in 1 .. 6 * n |->
        <<97, 98, 99, 100, 1 + (((k - 1) \div 6) \div 64),
          128 + (((k - 1) \div 6) % 64)>>[((k - 1) % 6) + 1]]

PGLZ_strategy_always_skip == [PGLZ_strategy_always EXCEPT !.skip_after_match = TRUE]

Case(b, x, S) == [build |-> b, source |-> x, strategy |-> S]

\* Long chains: one bucket holding the whole ring, and one bucket holding
\* more than PGLZ_MAX_CHAIN short matches.
ChainCases ==
    {Case("skip", SameByte(PGLZ_HISTORY_SIZE + 1 + MaxOver), PGLZ_strategy_always),
     Case("step6", Blocks(PGLZ_MAX_CHAIN + MaxExtra), PGLZ_strategy_default),
     Case("simd_sse2", Blocks(PGLZ_MAX_CHAIN + MaxExtra), PGLZ_strategy_always)}

\* The history-wrap input of PGLZ_HISTORY_SIZE + 1 bytes.
WrapCases ==
    {Case("skip", Rep16(PGLZ_HISTORY_SIZE + 1), PGLZ_strategy_default),
     Case("skip", Rep16(PGLZ_HISTORY_SIZE + 1), PGLZ_strategy_skip),
     Case("step6", Rep16(PGLZ_HISTORY_SIZE + 1), PGLZ_strategy_default)}

\* Inputs that make more than PGLZ_HISTORY_SIZE + 1 history entries, so that
\* ring slots are recycled: with an entry per input byte, and with an entry
\* per item (skip_after_match).
RecycleCases ==
    {Case("simd_scalar", Rep16(PGLZ_HISTORY_SIZE + 1 + MaxOver), PGLZ_strategy_always),
     Case("step6", SameByte(600) \o NoRepeat(4200), PGLZ_strategy_always)}

\* A run of PGLZ_MAX_MATCH or PGLZ_MAX_MATCH + 1 equal bytes, then other data.
RunCases ==
    {Case(b, SameByte(n) \o Distinct(9), S) :
        b \in Builds, n \in {PGLZ_MAX_MATCH, PGLZ_MAX_MATCH + 1},
        S \in {PGLZ_strategy_always, PGLZ_strategy_default}}

\* Inputs without any match.
RandomCases ==
    {Case("skip", NoRepeat(2048), PGLZ_strategy_default),
     Case("simd_sse2", NoRepeat(2048), PGLZ_strategy_always)}
    \cup {Case(b, NoRepeat(40), S) : b \in Builds, S \in Strategies}

\* 136 bytes without a match, then the first 18 of them again: with
\* min_comp_rate 0 the 3-byte tag of the match is written when result_max - 1
\* bytes are out and the control byte is used up.
EdgeCases ==
    {Case(b, NoRepeat(136) \o NoRepeat(18), PGLZ_strategy_always) : b \in Builds}

\* "abca", four other bytes, "abcq": the two 4-byte windows differ in the
\* last byte by 16 and fall into one bucket of the 512 an input below 128
\* bytes uses; their common prefix is 3 bytes.
Collide ==
    <<97, 98, 99, 97, 100, 101, 102, 103, 97, 98, 99, 113, 104, 105, 106, 107>>

CollideCases ==
    {Case(b, Collide, S) : b \in Builds, S \in {PGLZ_strategy_always, StrategySmall}}

\* Inputs with three runs of 'a': chains of several candidates with equal
\* and with growing match lengths.
TieCases ==
    {Case(b, Run(97, i) \o <<98>> \o Run(97, j) \o <<98, 98>> \o Run(97, MaxRun), S) :
        b \in Builds, i \in {7, MaxRun - 4}, j \in {7, MaxRun},
        S \in {PGLZ_strategy_always, PGLZ_strategy_default, StrategySmall}}

BigCases == ChainCases \cup WrapCases

LongCases ==
    RunCases \cup RandomCases \cup EdgeCases \cup CollideCases \cup TieCases

InitBig ==
    /\ \E c \in BigCases : FirstCall({c.build}, {c.source}, {c.strategy})
    /\ IdleDecompress
    /\ pc = "entry"

SpecBig == InitBig /\ [][Next]_vars

\* SpecLong: one call on an input of some hundred or thousand bytes that
\* does not fill the ring, and its round trip.
InitLong ==
    /\ \E c \in LongCases : FirstCall({c.build}, {c.source}, {c.strategy})
    /\ IdleDecompress
    /\ pc = "entry"

SpecLong == InitLong /\ [][Next]_vars

\* C12: one pglz_find_match call examines at most PGLZ_MAX_CHAIN history
\* entries, whatever the input and the state of the history, also when one
\* bucket chain holds all PGLZ_HISTORY_SIZE + 1 ring entries.
Inv_C12 == obs.chain <= PGLZ_MAX_CHAIN

\* A call examined PGLZ_MAX_CHAIN entries of a chain that holds the whole ring.
Wit_C12 ==
    /\ obs.chain = PGLZ_MAX_CHAIN
    /\ hist_recycle
    /\ fresh.slots = PGLZ_HISTORY_SIZE + 1
    /\ \A i \in 0 .. PGLZ_HISTORY_SIZE : hist_entries[i].hindex = hist_entries[0].hindex

\* C15: a call in which pglz_find_match never found a match, so that every
\* item written is a literal, returns -1 under every strategy: it was refused,
\* or its output reached first_success_by or result_max.
Inv_C15 ==
    (Returned /\ \A i \in 1 .. Len(items) : ~items[i].tag) =>
        /\ ret = -1
        /\ \/ strategy.match_size_good <= 0
           \/ slen < strategy.min_input_size
           \/ slen > strategy.max_input_size
           \/ bp >= strategy.first_success_by
           \/ bp >= result_max

\* The DEFAULT strategy gave up on an input without any repeated window.
Wit_C15 ==
    /\ pc = "done"
    /\ ret = -1
    /\ strategy = PGLZ_strategy_default
    /\ slen >= strategy.min_input_size
    /\ obs.finds > 0
    /\ Len(items) = obs.finds
    /\ \A i \in 1 .. Len(items) : ~items[i].tag

\* The input of scenario S6: a run of n equal bytes, then nine other bytes.
RunInput(n) == SameByte(n) \o Distinct(9)

\* C16 as stated: for a run of exactly PGLZ_MAX_MATCH = 273 equal bytes
\* followed by other data the stream holds a 3-byte tag of length 273, whose
\* third byte is 255, and the stream round-trips.
Orig_C16 ==
    source = RunInput(PGLZ_MAX_MATCH) =>
        /\ Returned =>
              /\ ret >= 0
              /\ \E i \in 1 .. Len(items) :
                     items[i].tag /\ items[i].len = PGLZ_MAX_MATCH
        /\ pc = "d_done" => (dret = slen /\ ddest = source)

\* C16, amended: the first byte of the run is written as a literal, so a run
\* of exactly 273 equal bytes gives a 3-byte tag of offset 1 and length 272,
\* third byte 254; a run of 274 gives length 273, third byte 255.  Both
\* streams round-trip.
Inv_C16 ==
    \A n \in {PGLZ_MAX_MATCH, PGLZ_MAX_MATCH + 1} :
        source = RunInput(n) =>
            /\ Returned =>
                  /\ ret >= 0
                  /\ items[1] = Literal(0)
                  /\ items[2] = Backref(1, n - 1, 1)
                  /\ SubSeq(dest, 2, 5) = <<88, 15, 1, n - 1 - 18>>
                  /\ \A i \in 3 .. Len(items) : ~items[i].tag
            /\ pc = "d_done" => (dret = slen /\ ddest = source)

\* The stream of the 273-byte run was decompressed; its tag has third byte 254.
Wit_C16 ==
    /\ pc = "d_done"
    /\ source = RunInput(PGLZ_MAX_MATCH)
    /\ dest[5] = 254
    /\ tag.len = PGLZ_MAX_MATCH - 1
    /\ dret = slen
    /\ ddest = source

\* The input of scenario S4.
WrapInput == Rep16(PGLZ_HISTORY_SIZE + 1)

\* The offsets of the back-references the call wrote.
TagOffsets == {items[i].off : i \in {k \in 1 .. Len(items) : items[k].tag}}

\* C17 as stated: for the 4097-byte input "0123456789ABCDEF" repeated the
\* call succeeds, the stream round-trips, and some back-reference has an
\* offset near 4095; the formula asks no more than an offset in the far half
\* of the window.
Orig_C17 ==
    source = WrapInput =>
        /\ Returned => (ret >= 0 /\ \E o \in TagOffsets : o >= PGLZ_HISTORY_SIZE \div 2)
        /\ pc = "d_done" => (dret = slen /\ ddest = source)

\* C17, amended: the call succeeds, the stream round-trips and holds
\* back-references; without skip-after-match all of them have offset 16, with
\* skip-after-match the offsets are 16, 288, ... up to 3824.
Inv_C17 ==
    source = WrapInput =>
        /\ Returned =>
              /\ ret > 0
              /\ TagOffsets # {}
              /\ IF build = "step6" \/ (build = "skip" /\ strategy.skip_after_match)
                 THEN /\ TagOffsets \subseteq {16 + 272 * k : k \in 0 .. 14}
                      /\ 3824 \in TagOffsets
                 ELSE TagOffsets = {16}
        /\ pc = "d_done" => (dret = slen /\ ddest = source)

\* The S4 stream of the step6 variant was decompressed; its farthest
\* back-reference has offset 3824.
Wit_C17 ==
    /\ pc = "d_done"
    /\ source = WrapInput
    /\ build = "step6"
    /\ 3824 \in TagOffsets
    /\ tag.off = 3824
    /\ dret = slen
    /\ ddest = source

(***************************************************************************)
(* SpecRefuse: one process calls pglz_compress MaxCalls times with         *)
(* arguments some of which the strategy checks refuse.                     *)
(***************************************************************************)
\* Two calls that pass the checks, then one refused for each reason:
\* slen < min_input_size, slen > max_input_size, match_size_good <= 0.
RefuseArgs ==
    { << <<97, 98, 97, 98, 97, 98, 97, 98, 99>>, PGLZ_strategy_always >>,
      << Run(97, 40), PGLZ_strategy_default >>,
      << <<98, 97, 98, 97, 98, 97, 98, 97, 98>>, PGLZ_strategy_skip >>,
      << <<97, 97, 98, 97, 98, 97, 98>>, StrategyClamp >>,
      << <<97, 98, 97, 98, 97, 98, 97, 98>>, StrategyForbid >> }

InitRefuse ==
    /\ \E a \in RefuseArgs : FirstCall(Builds, {a[1]}, {a[2]})
    /\ IdleDecompress
    /\ pc = "entry"

NextRefuse ==
    /\ pc = "done"
    /\ calls < MaxCalls
    /\ \E a \in RefuseArgs : EnterCompress(build, a[1], a[2])
    /\ calls' = calls + 1
    /\ prev' = Append(prev, Result)
    /\ UNCHANGED <<hist_start, hist_entries, dvars>>

NextRefused == Compress \/ NextRefuse

SpecRefuse == InitRefuse /\ [][NextRefused]_vars

\* C13: a call with match_size_good <= 0, slen < min_input_size or
\* slen > max_input_size returns -1 in its first step, with no byte written
\* to dest and hist_start and hist_entries as the call found them.
Inv_C13 ==
    [][(pc = "entry" /\ (\/ strategy.match_size_good <= 0
                         \/ slen < strategy.min_input_size
                         \/ slen > strategy.max_input_size))
         => /\ pc' = "done"
            /\ ret' = -1
            /\ dest' = << >>
            /\ hist_start' = hist_start
            /\ hist_entries' = hist_entries]_vars

\* A call refused for slen > max_input_size has returned, after an earlier
\* call of the process filled the static arrays.
Wit_C13 ==
    /\ pc = "done"
    /\ ret = -1
    /\ slen > strategy.max_input_size
    /\ dest = << >>
    /\ calls > 1
    /\ \E b \in DOMAIN hist_start.at : hist_start.at[b] # PGLZ_INVALID_ENTRY
    /\ hist_entries # << >>

(***************************************************************************)
(* SpecWrap: one call that recycles ring slots; while (match_len--) is     *)
(* taken whole or one pglz_hist_add at a time.                              *)
(***************************************************************************)
InitWrap ==
    /\ \E c \in RecycleCases : FirstCall({c.build}, {c.source}, {c.strategy})
    /\ IdleDecompress
    /\ pc = "entry"

NextWrap == Compress \/ MatchAddOne

SpecWrap == InitWrap /\ [][NextWrap]_vars

\* Where following next from entry e arrives after at most n entries of
\* bucket b: -1 at the end of the chain, -2 at an entry that was never
\* written or carries another hindex.
RECURSIVE ChainWalk(_, _, _, _)
ChainWalk(he, b, e, n) ==
    IF n = 0 \/ e < 0 THEN e
    ELSE IF e \notin DOMAIN he \/ he[e].hindex # b THEN -2
    ELSE ChainWalk(he, b, he[e].next, n - 1)

\* The same over up to blocks * WalkBlock entries, more than the ring holds:
\* a walk that is not over by then is in a cycle.
RECURSIVE ChainEnd(_, _, _, _)
ChainEnd(he, b, e, blocks) ==
    IF blocks = 0 \/ e < 0 THEN e
    ELSE ChainEnd(he, b, ChainWalk(he, b, e, WalkBlock), blocks - 1)

\* The buckets of this call whose head is an entry.
LiveHeads == {b \in DOMAIN hist_start.at : b < hashsz}

\* C18: after every pglz_hist_add of a call, before and after the ring has
\* wrapped, with and without skip_after_match, the walk from hist_start[b]
\* along next sees, for every bucket b < hashsz, only entries whose hindex
\* is b and ends at -1 within the size of the ring (no cycle); every other
\* bucket below hashsz is empty.  An entry has one hindex, so no slot is
\* reached from two bucket heads.
Inv_C18 ==
    obs.adds > 0 =>
        /\ hist_start.lo >= hashsz
        /\ \A b \in LiveHeads :
              ChainEnd(hist_entries, b, hist_start.at[b], WalkBlocks) = -1

\* Slots have been recycled, a while (match_len--) loop is over, and a
\* recycled slot heads a chain of more than one entry.
Wit_C18 ==
    /\ hist_recycle
    /\ obs.unlinks > 0
    /\ pc = "main"
    /\ match_len = -1
    /\ \E b \in LiveHeads :
          /\ hist_start.at[b] < obs.unlinks
          /\ hist_entries[hist_start.at[b]].next >= 0

\* C19: every pglz_hist_add made with recycle set calls pglz_hist_unlink,
\* which finds the occupant of the slot on the chain of the occupant's
\* hindex, as the last element of that chain, and splices it out; the path
\* that leaves the loop without a splice is never taken.  The slot to be
\* recycled next always holds the last element of its chain.
Inv_C19 ==
    /\ ~obs.notfound
    /\ ~obs.notlast
    /\ obs.unlinks = (IF obs.adds > PGLZ_HISTORY_SIZE + 1
                      THEN obs.adds - (PGLZ_HISTORY_SIZE + 1) ELSE 0)
    /\ (hist_recycle => hist_entries[hist_next].next = PGLZ_INVALID_ENTRY)

\* Two iterations into a while (match_len--) loop that began after the
\* wrap: both adds recycled a slot, and the entry of the second is linked in
\* front of an older one.
Wit_C19 ==
    /\ pc = "adding"
    /\ hist_recycle
    /\ hist_next >= 2
    /\ obs.unlinks > hist_next - 1
    /\ items[Len(items)].len - match_len = 2
    /\ hist_entries[hist_next - 1].pos = dp - 1
    /\ hist_entries[hist_next - 2].pos = dp - 2
    /\ hist_entries[hist_next - 1].next >= 0

\* C20: pglz_find_match is called only with end - input >= 4; at every
\* candidate it examines the two Asserts hold (source <= hp < input and
\* hp + 4 <= end); and no read of pglz_hist_idx, of the 4-byte compare, of
\* the block compare of len - 4 bytes, of the extension loop or of
\* match_len_simd is outside the source buffer.
Inv_C20 ==
    /\ ~obs.unsafe
    /\ (obs.finds > 0 => obs.room >= 4)

\* The SSE2 build examined several candidates in its last pglz_find_match
\* call and found a match of more than one 16-byte vector that ends at the
\* last byte of the source.
Wit_C20 ==
    /\ build = "simd_sse2"
    /\ pc = "tail"
    /\ obs.chain > 1
    /\ Len(items) > 0
    /\ items[Len(items)].tag
    /\ items[Len(items)].len > 20
    /\ items[Len(items)].at + items[Len(items)].len = slen
    /\ obs.room = items[Len(items)].len

\* Input sizes on both sides of INT_MAX / 100, where result_max changes its
\* formula.
SmallSizes == {INT_MAX \div 100 - 1, INT_MAX \div 100}
BigSizes == {INT_MAX \div 100 + 1, INT_MAX - 1, INT_MAX}

\* C21: result_max <= slen for every slen and strategy, and at every point
\* of a pglz_compress call, also of one that returns -1, at most
\* result_max + 3 bytes have been written to dest, which is at most slen + 3:
\* a destination of slen + 4 bytes is not overrun.
Inv_C21 ==
    /\ result_max <= slen
    /\ \A S \in Strategies, n \in BigSizes : ResultMax(S, n) <= n
    /\ \A S \in Strategies, n \in SmallSizes : ResultMax(S, n) <= n
    /\ Len(dest) <= result_max + 3
    /\ Len(dest) <= slen + 3

\* A call that has written result_max + 3 bytes, a control byte and a 3-byte
\* tag beyond result_max - 1, and returned -1.
Wit_C21 ==
    /\ pc = "done"
    /\ ret = -1
    /\ result_max > 0
    /\ Len(dest) = result_max + 3
    /\ Len(items) > 0
    /\ items[Len(items)].tag

(***************************************************************************)
(* SpecCopy: pglz_decompress called on a stream of up to MaxLits literals   *)
(* and one tag whose offset reaches back into them, with a length up to     *)
(* MaxCopy and a rawsize that does or does not clamp the tag.               *)
(***************************************************************************)
MaxLits == 4
MaxCopy == 20

\* The control byte of k literals and a tag, the literals 'A', 'B', ...,
\* and the tag.
CopySource(k, l, o) == <<2 ^ k>> \o [i \in 1 .. k |-> 64 + i] \o TagBytes(l, o)

InitCopy ==
    /\ FirstCall({"skip"}, {<< >>}, {PGLZ_strategy_always})
    /\ \E k \in 1 .. MaxLits, l \in 3 .. MaxCopy :
         /\ \E o \in 1 .. k : dsrc = CopySource(k, l, o)
         /\ rawsize \in {k + 1, k + l - 1, k + l}
    /\ check_complete \in BOOLEAN
    /\ sp = 0
    /\ ddest = << >>
    /\ dctrl = 0
    /\ ctrlc = 0
    /\ len = 0
    /\ off = 0
    /\ dret = 0
    /\ tag = [n |-> 0]
    /\ pc = "d_outer"

SpecCopy == InitCopy /\ [][NextDec]_vars

\* The clamped length of the last tag decoded.
TagLen == Min(tag.len, destend - tag.at)

\* C22: once the doubling loop and the final memcpy of an accepted tag are
\* done, the len bytes written at position p are written bytes and satisfy
\* dest[p + k] = dest[p - off + k] for 0 <= k < len, with off the offset the
\* tag carried and len its clamped length: the forward byte copy.  The
\* literals 'A', 'B' and the tag off = 2, len = 18 give "AB" ten times.
Inv_C22 ==
    /\ (tag.n > 0 /\ ~tag.bad /\ pc # "d_copy") =>
          /\ Len(ddest) >= tag.at + TagLen
          /\ \A k \in 1 .. TagLen :
                /\ ddest[tag.at + k] # UNWRITTEN
                /\ ddest[tag.at + k] = ddest[tag.at - tag.off + k]
    /\ (dsrc = CopySource(2, 18, 2) /\ rawsize = 20 /\ pc = "d_done") =>
          /\ dret = 20
          /\ ddest = [i \in 1 .. 20 |-> IF i % 2 = 1 THEN 65 ELSE 66]

\* The stream 'A', 'B', tag (off = 2, len = 18) has been expanded.
Wit_C22 ==
    /\ pc = "d_done"
    /\ dsrc = CopySource(2, 18, 2)
    /\ rawsize = 20
    /\ tag.off = 2
    /\ tag.len = 18
    /\ Len(ddest) = 20
    /\ ddest[19] = 65
    /\ ddest[20] = 66

\* The number of bytes the next memcpy of the tag expansion copies.
CopyLen == IF off < len THEN off ELSE len

\* C23: every memcpy of the tag expansion copies from a range that lies
\* inside the bytes of dest already written (it starts at or after dest and
\* ends at or before the write position dp), hence disjoint from its
\* destination range, which starts at dp; and the source point dp - off is
\* the same at every memcpy of a tag: the write position of the tag minus
\* the offset it carried.
Inv_C23 ==
    pc = "d_copy" =>
        /\ off >= 1
        /\ CopyLen >= 1
        /\ ddp - off >= 0
        /\ ddp - off + CopyLen <= ddp
        /\ ddp - off = tag.at - tag.off

\* Before the third memcpy of a tag with offset 2: off has doubled twice,
\* six bytes are copied, and the source point is where it was.
Wit_C23 ==
    /\ pc = "d_copy"
    /\ tag.off = 2
    /\ off = 8
    /\ off < len
    /\ ddp = tag.at + 6

\* C24 as stated: pglz_decompress reads no source byte at an index >= slen.
\* The control byte and a literal are read at sp < srcend; a tag is read at
\* tag.from .. tag.to - 1 (sp[0], sp[1] and, for len = 18, the extension
\* byte), so the statement is tag.to <= srcend for every tag decoded.
Orig_C24 == tag.n > 0 => tag.to <= srcend

\* The source ends inside a 3-byte tag whose first byte is its last byte:
\* sp[1] and the extension byte were read at slen and slen + 1, and the call
\* returned -1.
Wit_C24 ==
    /\ pc = "d_done"
    /\ dret = -1
    /\ tag.n > 0
    /\ tag.from = srcend - 1
    /\ tag.to = srcend + 2

(***************************************************************************)
(* SpecDecFair: calls as in SpecDec and SpecCopy, each running to its end: *)
(* pglz_decompress is straight-line code on the calling thread, so a step  *)
(* that can be taken is taken.                                             *)
(***************************************************************************)
\* The sources of SpecDec but for the longest.
ShortSources == SeqsUpTo(DecBytes, MaxDecLen - 1)

InitDecFair == DecStart(ShortSources) \/ InitCopy

SpecDecFair == InitDecFair /\ [][NextDec]_vars /\ WF_vars(NextDec)

\* C25: every pglz_decompress call returns; each iteration of the outer
\* loop consumes a source byte; and each iteration of the doubling loop
\* leaves off larger and the remaining len smaller, off being at least 1.
Inv_C25 ==
    /\ <>(pc = "d_done")
    /\ [][/\ (pc = "d_outer" /\ pc' = "d_inner") => sp' > sp
          /\ (pc = "d_copy" /\ pc' = "d_copy") =>
                (off >= 1 /\ off' > off /\ len' < len /\ len' >= 1)]_vars

\* A call has returned after expanding a tag with offset 1 and length 19 in
\* five memcpy calls.
Wit_C25 ==
    /\ pc = "d_done"
    /\ dret = 20
    /\ tag.n = 1
    /\ tag.off = 1
    /\ tag.len = 19
    /\ off = 16
    /\ Len(ddest) = 20

(***************************************************************************)
(* C26: what pglz_find_match returns, stated on the chain it walks.        *)
(***************************************************************************)
\* The length of the common prefix of the input at a and the bytes at b,
\* capped at cap.
CommonPrefix(src, a, b, cap) ==
    LET diff == {k \in 0 .. cap - 1 : At(src, a + k, 0) # At(src, b + k, 0)}
    IN  IF diff = {} THEN cap
        ELSE CHOOSE k \in diff : \A j \in diff : k <= j

\* The walk as the claim words it, from entry e with the best length bl and
\* its offset bo, the current good value and n entries visited; a common
\* prefix shorter than least counts as no match at that candidate.
RECURSIVE RefWalk(_, _, _, _, _, _, _, _)
RefWalk(he, src, input, least, e, best, good, n) ==
    IF e = PGLZ_INVALID_ENTRY \/ input - he[e].pos >= 4095
    THEN [len |-> best.len, off |-> best.off, visited |-> n]
    ELSE LET p == CommonPrefix(src, input, he[e].pos,
                               Min(PGLZ_MAX_MATCH, Len(src) - input))
             l == IF p < least THEN 0 ELSE p
             b == IF l > best.len THEN [len |-> l, off |-> input - he[e].pos]
                  ELSE best
         IN  IF \/ n + 1 >= PGLZ_MAX_CHAIN
                \/ he[e].next = PGLZ_INVALID_ENTRY
                \/ b.len >= good
             THEN [len |-> b.len, off |-> b.off, visited |-> n + 1]
             ELSE RefWalk(he, src, input, least, he[e].next, b,
                          good - (good * good_drop) \div 100, n + 1)

\* The walk from the bucket of the cursor dp.
RefFind(least) ==
    RefWalk(hist_entries, source, dp, least,
            HStart(hist_start, pglz_hist_idx(source, dp, dend, mask)),
            [len |-> 0, off |-> 0], good_match, 0)

\* pglz_find_match at the cursor dp.
FindHere ==
    pglz_find_match(build, Hist, source, dp, dend, good_match, good_drop, mask)

\* The result of pglz_find_match is the result r of the walk.
SameAs(r) ==
    /\ FindHere.found = (r.len > 2)
    /\ FindHere.found => (FindHere.len = r.len /\ FindHere.off = r.off)
    /\ FindHere.chain_len = r.visited

\* C26 as stated: at every main-loop iteration pglz_find_match returns the
\* largest common-prefix length (capped at PGLZ_MAX_MATCH and at the end of
\* the input) of the candidates it visits, newest first, with the offset of
\* the first candidate that attains it; the walk ends at the end of the
\* chain, at a candidate with offset >= 0xFFF, after PGLZ_MAX_CHAIN entries,
\* or when the best length reaches good, which is lowered after each entry
\* that has a successor.
Orig_C26 == pc = "main" => SameAs(RefFind(1))

\* C26, amended: the same, with a candidate counted only if at least its
\* first four bytes equal those at the cursor.
Inv_C26 == pc = "main" => SameAs(RefFind(4))

\* A call visited three candidates of equal match length 7 and returned the
\* offset of the first.
Wit_C26 ==
    /\ pc = "main"
    /\ FindHere.found
    /\ FindHere.chain_len >= 2
    /\ FindHere.len >= 4
    /\ FindHere.len < good_match
    /\ LET h == HStart(hist_start, pglz_hist_idx(source, dp, dend, mask))
       IN  /\ FindHere.off = dp - hist_entries[h].pos
           /\ hist_entries[h].next # PGLZ_INVALID_ENTRY
           /\ CommonPrefix(source, dp, hist_entries[hist_entries[h].next].pos,
                           Min(PGLZ_MAX_MATCH, slen - dp)) = FindHere.len

(***************************************************************************)
(* History inserts after a match                                           *)
(***************************************************************************)
\* The position the k-th pglz_hist_add of the call (k from 0) stored, read
\* from the slot it filled; meaningful while the slot is not yet reused.
Inserted(k) == HEntry(hist_entries, k % (PGLZ_HISTORY_SIZE + 1)).pos

LastItem == items[Len(items)]

AtLoopTest == pc \in {"main", "tail"} \/ (Returned /\ Len(items) > 0)

\* C27: after a tag of length L at cursor p the history received exactly
\* the positions p .. p+L-1 in that order (skip_after_match false) or exactly
\* the position p (true), and the cursor is p + L; so the number of
\* pglz_hist_add calls is the number of bytes consumed (false) or the number
\* of items emitted (true).
Inv_C27 ==
    /\ obs.adds = (IF skip_after_match THEN Len(items) ELSE dp)
    /\ obs.adds > 0 =>
          Inserted(obs.adds - 1) = (IF skip_after_match THEN LastItem.at ELSE dp - 1)
    /\ (AtLoopTest /\ Len(items) > 0) =>
          /\ dp = LastItem.at + LastItem.len
          /\ skip_after_match \/
                \A j \in 0 .. LastItem.len - 1 :
                    Inserted(obs.adds - LastItem.len + j) = LastItem.at + j

Wit_C27 ==
    /\ pc = "main"
    /\ ~skip_after_match
    /\ hist_recycle
    /\ Len(items) > 1
    /\ LastItem.tag
    /\ LastItem.len > 16
    /\ obs.adds = dp
    /\ Inserted(obs.adds - LastItem.len) = LastItem.at

(***************************************************************************)
(* The first-success gate                                                  *)
(***************************************************************************)
\* A back-reference has been emitted so far in the call.
HasTag == \E i \in 1 .. Len(items) : items[i].tag

Failed == pc = "done" /\ ret = -1

\* C28: at the top of a main-loop iteration the call returns -1 if no
\* back-reference has been emitted so far and the bytes written are >=
\* first_success_by; once a back-reference has been emitted the gate causes
\* no failure (a main-loop iteration then fails only on result_max), and the
\* tail loop does not apply the gate (it fails only on result_max).
Inv_C28 ==
    [][/\ (pc \in {"main", "tail"}) => (found_match <=> HasTag)
       /\ (pc = "main" /\ ~HasTag /\ bp >= strategy.first_success_by) =>
             (Failed' /\ dest' = dest /\ items' = items)
       /\ (pc = "main" /\ HasTag /\ bp < result_max) => ~Failed'
       /\ (pc = "main" /\ bp < strategy.first_success_by /\ bp < result_max) =>
             ~Failed'
       /\ (pc = "tail" /\ dp < dend /\ bp < result_max) =>
             (~Failed' /\ Len(items') = Len(items) + 1)]_vars

\* The tail loop has emitted a literal although no back-reference exists and
\* the bytes written had reached first_success_by before it.
Wit_C28 ==
    /\ pc = "tail"
    /\ ~HasTag
    /\ Len(items) > 0
    /\ LastItem.at >= dend - 3
    /\ LastItem.at >= 0
    /\ Len(items) % 8 # 1
    /\ bp - 1 >= strategy.first_success_by

(***************************************************************************)
(* The recycling schedule                                                  *)
(***************************************************************************)
\* How many of the pglz_hist_add calls number a .. b-1 of a call (from 0)
\* recycle, if the calls from number first on do.
Recycling(a, b, first) ==
    IF b <= first THEN 0 ELSE b - (IF a > first THEN a ELSE first)

\* What a step did to the history, if the inserts from number first on
\* recycle: one unlink per recycling insert, each of which found the slot's
\* previous occupant in its chain; and the flag the next insert will see.
Schedule(first) ==
    (~skip_after_match /\ obs'.adds > obs.adds) =>
        /\ obs'.unlinks - obs.unlinks = Recycling(obs.adds, obs'.adds, first)
        /\ ~obs'.notfound
        /\ hist_recycle' <=> (obs'.adds >= first)

Consecutive(n, end) ==
    /\ \A i \in 1 .. n :
          /\ items[i].len >= 1
          /\ items[i].at = (IF i = 1 THEN 0 ELSE items[i - 1].at + items[i - 1].len)
    /\ end = (IF n = 0 THEN 0 ELSE items[n].at + items[n].len)

\* No item runs past the end of the input (with skip_after_match the clamp
\* fires exactly when the last item does), and the cursor is in the input.
InBounds ==
    /\ 0 <= dp /\ dp <= dend
    /\ \A i \in 1 .. Len(items) : items[i].at + items[i].len <= dend
    /\ (pc = "done" /\ ret >= 0) => Consecutive(Len(items), slen)
    /\ AtLoopTest => Consecutive(Len(items), dp)

\* C30: every match length is <= dend - dp, so the clamp after the skip
\* never fires; source <= dp <= dend throughout; dp strictly increases in
\* every loop iteration; on success the items cover exactly slen bytes.
Inv_C30 ==
    [][/\ InBounds /\ InBounds'
       /\ (pc \in {"main", "tail"} /\ pc' \in {"main", "tail"}) => dp' > dp
       /\ (pc = "main" /\ pc' = "adds") =>
             (dp' = dp /\ match_len' >= 3 /\ match_len' <= dend - dp)
       /\ (pc \in {"adds", "adding"} /\ pc' = "adding") => dp' = dp + 1
       /\ (pc \in {"adds", "adding"} /\ pc' \in {"main", "tail"}) =>
             (dp' = items[Len(items)].at + items[Len(items)].len /\ dp' >= dp)
       /\ (pc = "main" /\ skip_after_match /\ Len(items') > Len(items)) =>
             dp + items'[Len(items')].len = dp']_vars

\* A match found with skip_after_match reaches the end of the input exactly.
Wit_C30 ==
    /\ skip_after_match
    /\ pc = "tail"
    /\ dp = dend
    /\ Len(items) > 1
    /\ LastItem.tag
    /\ LastItem.at + LastItem.len = dend
    /\ LastItem.len > 4
====
